---- MODULE Spec2Model ----
(***************************************************************************)
(* Vision Event Engine: the bridge supervisor (ModelService), its log      *)
(* buffer, the providers and the strategy orchestrator (ProviderService).  *)
(***************************************************************************)
EXTENDS Integers, Sequences, FiniteSets, TLC

VARIABLES
    bridgeProcess,  \* ModelService.bridgeProcess: pid of the tracked handle, 0 = null
    procs,          \* the bridge subprocesses spawned so far, by pid
    configTier,     \* activeTier stored in model_config.json, "none" = no file
    calls,          \* the invocations of ModelService.start(), by call id
    fuser,          \* `fuser -k 5000/tcp` commands spawned by stop() and not yet run
    bridgeLogs,     \* ModelService.bridgeLogs
    sinceDrain,     \* history: entries pushed since the last getLogs(), in order
    adds,           \* history: number of output chunks the data handlers have logged
    reads,          \* history: the getLogs() calls, what each returned and what was pushed before it
    req,            \* the inbound request: strategy, provider config, extraction request
    orch,           \* position of orchestrateExtraction and its ocrData
    streams,        \* the frame streams: chunks enqueued, closed flag, chunks read by a relay
    prov,           \* the provider run that feeds each stream
    saved,          \* the record store: events saved by saveEvent, in order
    probes,         \* history: the checkHealth calls of POST /api/health and their results
    inst            \* the run of ModelService.install(): its position, tier and venv

supVars == <<bridgeProcess, procs, configTier, calls, fuser>>
logVars == <<bridgeLogs, sinceDrain, adds, reads>>
adminVars == <<probes, inst>>
orchVars == <<req, orch, streams, prov, saved, adminVars>>

vars == <<supVars, logVars, orchVars>>

(***************************************************************************)
(* Bounds of the model and constants of the program                        *)
(***************************************************************************)
MaxCalls == 2
MaxProcs == 2
MaxPoll == 1
MaxAdds == 3
MaxProbes == 2
MaxLate == 3

MAX_LOGS == 100
PollLimit == 300

Tiers == {"eco", "lite", "pro"}
TierArgs == Tiers \cup {"none"}
\* the tiers the model's callers ask for
TierInputs == {"eco", "lite"}
Pids == 1..MaxProcs
CallIds == 1..MaxCalls

(***************************************************************************)
(* Log buffer                                                              *)
(***************************************************************************)
\* A line of output: its text and whether it carries ANSI escape sequences.
Line(txt) == [txt |-> txt, ansi |-> FALSE]

stripAnsi(line) == [line EXCEPT !.ansi = FALSE]

toLowerCase(txt) ==
    CASE txt = <<"WARNING: x">> -> <<"warning: x">>
      [] txt = <<"INFO: up">> -> <<"info: up">>
      [] OTHER -> txt

\* lowerLine.includes(...) for one of the curated substrings
IncludesBenign(lowerLine) == lowerLine \in {<<"warning: x">>, <<"info: up">>}

\* filter(l => l.trim()): a line of escape sequences only is not blank
NonBlank(l) == l.txt # <<>> \/ l.ansi
SelectLines(lines) == SelectSeq(lines, NonBlank)

\* categorisation that looks at the text only, whatever the stream
LogEntryIgnoresStream(line, isError) ==
    [msg |-> line.txt,
     ansi |-> line.ansi,
     err |-> ~IncludesBenign(toLowerCase(line.txt)),
     stderr |-> isError]

LogEntry(line, isError) ==
    [msg |-> line.txt,
     ansi |-> line.ansi,
     err |-> isError /\ ~IncludesBenign(toLowerCase(line.txt)),
     \* history: the isError argument, TRUE for the stderr handler
     stderr |-> isError]

PushDropNewest(logs, entry) ==
    IF Len(logs) >= MAX_LOGS THEN logs ELSE Append(logs, entry)

Push(logs, entry) ==
    LET pushed == Append(logs, entry)
    IN  IF Len(pushed) > MAX_LOGS THEN Tail(pushed) ELSE pushed

RECURSIVE PushAll(_, _, _)
PushAll(logs, lines, isError) ==
    IF lines = <<>> THEN logs
    ELSE PushAll(Push(logs, LogEntry(Head(lines), isError)), Tail(lines), isError)

\* the buffer after addLog(data, isError); data is given as its lines
addLog(logs, data, isError) ==
    LET cleanData == [k \in 1..Len(data) |-> stripAnsi(data[k])]
    IN  PushAll(logs, SelectLines(cleanData), isError)

Entries(lines, isError) == [k \in 1..Len(lines) |-> LogEntry(lines[k], isError)]

\* what addLog hands to the buffer, for the history variable
Logged(data, isError) ==
    Entries(SelectLines([k \in 1..Len(data) |-> stripAnsi(data[k])]), isError)

\* a sequence of addLog calls of single lifecycle messages: <<txt, isError>> pairs
RECURSIVE addLogs(_, _)
addLogs(logs, msgs) ==
    IF msgs = <<>> THEN logs
    ELSE addLogs(addLog(logs, <<Line(Head(msgs)[1])>>, Head(msgs)[2]), Tail(msgs))

RECURSIVE LoggedAll(_)
LoggedAll(msgs) ==
    IF msgs = <<>> THEN <<>>
    ELSE Logged(<<Line(Head(msgs)[1])>>, Head(msgs)[2]) \o LoggedAll(Tail(msgs))

\* the effect of a handler's addLog calls on the buffer and on the history
Log(msgs) ==
    /\ bridgeLogs' = addLogs(bridgeLogs, msgs)
    /\ sinceDrain' = sinceDrain \o LoggedAll(msgs)
    /\ UNCHANGED <<adds, reads>>

(***************************************************************************)
(* The wire format of frames: JSON.stringify(frame) + "\n", JSON.parse     *)
(***************************************************************************)
\* Text is a sequence of characters; "NL" is the newline, "Q" the double quote,
\* "BS" the backslash. A line on the wire is the frame's type, its tag and its
\* text as a JSON string.
RECURSIVE Escape(_)
Escape(text) ==
    IF text = <<>> THEN <<>>
    ELSE (CASE Head(text) = "NL" -> <<"BS", "n">>
            [] Head(text) = "Q" -> <<"BS", "Q">>
            [] Head(text) = "BS" -> <<"BS", "BS">>
            [] OTHER -> <<Head(text)>>) \o Escape(Tail(text))

\* the text of a JSON string, or <<"invalid">> when it is not one
RECURSIVE Unescape(_)
Unescape(str) ==
    IF str = <<>> THEN <<>>
    ELSE IF Head(str) \in {"NL", "Q"} THEN <<"invalid">>
    ELSE IF Head(str) = "BS"
         THEN IF Len(str) < 2 \/ str[2] \notin {"n", "Q", "BS"} THEN <<"invalid">>
              ELSE LET rest == Unescape(Tail(Tail(str)))
                   IN  IF rest = <<"invalid">> THEN rest
                       ELSE <<(CASE str[2] = "n" -> "NL" [] str[2] = "Q" -> "Q" [] OTHER -> "BS")>> \o rest
         ELSE LET rest == Unescape(Tail(str))
              IN  IF rest = <<"invalid">> THEN rest ELSE <<Head(str)>> \o rest

LogFrame(tag, message) == [type |-> "log", tag |-> tag, text |-> message]
ErrorFrame(message) == [type |-> "error", tag |-> "message", text |-> message]
FinalFrame(event) == [type |-> "final", tag |-> event.kind, text |-> event.text]

\* the text written as it is, not as a JSON string
EncodeRaw(frame) == <<frame.type, frame.tag>> \o frame.text \o <<"NL">>

\* encoder.encode(JSON.stringify(frame) + "\n")
Encode(frame) == <<frame.type, frame.tag>> \o Escape(frame.text) \o <<"NL">>

\* JSON.parse(line): the frame, or type "invalid" when JSON.parse throws
Parse(line) ==
    IF Len(line) >= 2 /\ line[1] \in {"log", "error", "final"}
       /\ Unescape(SubSeq(line, 3, Len(line))) # <<"invalid">>
    THEN [type |-> line[1], tag |-> line[2], text |-> Unescape(SubSeq(line, 3, Len(line)))]
    ELSE [type |-> "invalid", tag |-> "", text |-> <<>>]

\* chunk.split("\n")
RECURSIVE Split(_)
Split(bytes) ==
    IF \A k \in 1..Len(bytes) : bytes[k] # "NL" THEN <<bytes>>
    ELSE LET k == CHOOSE j \in 1..Len(bytes) :
                    bytes[j] = "NL" /\ \A h \in 1..(j - 1) : bytes[h] # "NL"
         IN  <<SubSeq(bytes, 1, k - 1)>> \o Split(SubSeq(bytes, k + 1, Len(bytes)))

\* a chunk on a stream: the bytes enqueued, and (history) the stream it was made for
Chunk(sid, frame) == [src |-> sid, bytes |-> Encode(frame)]

(***************************************************************************)
(* JSON recovery from the accumulated content                              *)
(***************************************************************************)
\* JSON.parse accepts the text: an object {} or {k}, an array [] or [value]
RECURSIVE IsJson(_)
IsJson(text) ==
    /\ Len(text) >= 2
    /\ \/ /\ text[1] = "{" /\ text[Len(text)] = "}"
          /\ Len(text) = 2 \/ (Len(text) = 3 /\ text[2] = "k")
       \/ /\ text[1] = "[" /\ text[Len(text)] = "]"
          /\ Len(text) = 2 \/ IsJson(SubSeq(text, 2, Len(text) - 1))

\* JSON.parse reading one value at position i: where it stopped, and whether it
\* stopped on a token it could not accept (pos > Len(text): the text ended too soon)
RECURSIVE ParseValue(_, _)
ParseValue(text, i) ==
    IF i > Len(text) THEN [ok |-> FALSE, pos |-> i]
    ELSE IF text[i] = "{"
         THEN IF i + 1 <= Len(text) /\ text[i + 1] = "}" THEN [ok |-> TRUE, pos |-> i + 2]
              ELSE IF i + 1 <= Len(text) /\ text[i + 1] = "k"
                   THEN [ok |-> i + 2 <= Len(text) /\ text[i + 2] = "}",
                         pos |-> IF i + 2 <= Len(text) /\ text[i + 2] = "}" THEN i + 3 ELSE i + 2]
                   ELSE [ok |-> FALSE, pos |-> i + 1]
    ELSE IF text[i] = "["
         THEN IF i + 1 <= Len(text) /\ text[i + 1] = "]" THEN [ok |-> TRUE, pos |-> i + 2]
              ELSE LET r == ParseValue(text, i + 1)
                   IN  IF ~r.ok THEN r
                       ELSE IF r.pos <= Len(text) /\ text[r.pos] = "]"
                            THEN [ok |-> TRUE, pos |-> r.pos + 1]
                            ELSE [ok |-> FALSE, pos |-> r.pos]
    ELSE [ok |-> FALSE, pos |-> i]

\* e.message of the SyntaxError that JSON.parse(text) throws: it names the token
\* that could not be accepted, or says that the input ended
SyntaxErrorMessage(text) ==
    LET r == ParseValue(text, 1)
    IN  IF r.pos > Len(text) THEN <<"Unexpected end of JSON input">>
        ELSE <<"Unexpected token", text[r.pos]>>

Closer(c) == IF c = "{" THEN "}" ELSE "]"

\* positions where /\{[\s\S]*\}|\[[\s\S]*\]/ can start a match
MatchStarts(text) ==
    {k \in 1..Len(text) :
        /\ text[k] \in {"{", "["}
        /\ \E j \in (k + 1)..Len(text) : text[j] = Closer(text[k])}

\* accumulatedContent.match(...): the leftmost match, greedy; <<>> stands for null
Match(text) ==
    IF MatchStarts(text) = {} THEN <<>>
    ELSE LET k == CHOOSE x \in MatchStarts(text) : \A y \in MatchStarts(text) : x <= y
             j == CHOOSE x \in (k + 1)..Len(text) :
                    /\ text[x] = Closer(text[k])
                    /\ \A y \in (x + 1)..Len(text) : text[y] # Closer(text[k])
         IN  SubSeq(text, k, j)

\* jsonMatch ? jsonMatch[0] : accumulatedContent
Recovered(text) == IF Match(text) # <<>> THEN Match(text) ELSE text

(***************************************************************************)
(* ModelService: the bridge supervisor                                     *)
(***************************************************************************)
NoProc == [st |-> "none", tier |-> "eco", sig |-> FALSE]
Exited == [st |-> "exited", tier |-> "eco", sig |-> FALSE]
\* (history: ok, the start() returned on a health probe that reported status ok;
\* pid, the process this start() spawned, while it polls)
NoCall == [pc |-> "free", tier |-> "none", i |-> 0, ok |-> FALSE, pid |-> 0]

\* exitCode === null
Alive(p) == procs[p].st \in {"starting", "loading", "ready"}

\* the process listening on 127.0.0.1:5000, if any
PortHolder == {p \in Pids : procs[p].st \in {"loading", "ready"}}

\* what GET /health can give: a refused or timed-out fetch, or the listener's status
HealthOutcomes ==
    {"fail"} \cup {IF procs[p].st = "ready" THEN "ok" ELSE "loading" : p \in PortHolder}

\* getStatus().activeTier
activeTier == IF configTier = "none" THEN "eco" ELSE configTier

\* getStatus().running
running == bridgeProcess # 0 /\ Alive(bridgeProcess)

FreeCalls == {c \in CallIds : calls[c].pc = "free"}
FreePids == {p \in Pids : procs[p].st = "none"}
Min(S) == CHOOSE x \in S : \A y \in S : x <= y

stopKeepsHandle(bp, ps) ==
    [bridgeProcess |-> bp,
     procs |-> IF bp # 0 /\ ps[bp].st \in {"starting", "loading", "ready"}
               THEN [ps EXCEPT ![bp].sig = TRUE] ELSE ps]

\* stop(): SIGTERM to the tracked handle, clear it, free the port out of band
stop(bp, ps) ==
    [bridgeProcess |-> 0,
     procs |-> IF bp # 0 /\ ps[bp].st \in {"starting", "loading", "ready"}
               THEN [ps EXCEPT ![bp].sig = TRUE] ELSE ps]

StopMsg == <<"port cleared">>

\* start(tier) up to its first await: the guard, and stop() when the guard fails
\* (msgs: what the caller logged before calling start)
StartEnter(c, tier, msgs) ==
    IF running
    THEN /\ calls' = [calls EXCEPT ![c] = [NoCall EXCEPT !.pc = "guard", !.tier = tier]]
         /\ UNCHANGED <<bridgeProcess, procs, fuser>>
         /\ Log(msgs)
    ELSE /\ calls' = [calls EXCEPT ![c] = [NoCall EXCEPT !.pc = "stopped", !.tier = tier]]
         /\ bridgeProcess' = stop(bridgeProcess, procs).bridgeProcess
         /\ procs' = stop(bridgeProcess, procs).procs
         /\ fuser' = fuser + 1
         /\ Log(msgs \o <<<<StopMsg, FALSE>>>>)

\* a call of start() without a tier
Start ==
    /\ FreeCalls # {}
    /\ StartEnter(Min(FreeCalls), "none", <<>>)
    /\ UNCHANGED configTier
    /\ UNCHANGED orchVars

\* setActiveTier(tier)
SetActiveTier(tier) ==
    /\ FreeCalls # {}
    /\ configTier' = tier
    /\ StartEnter(Min(FreeCalls), tier, <<<<<<"switching", tier>>, FALSE>>>>)
    /\ UNCHANGED orchVars

\* the guard's health probe answers: res.ok returns, anything else goes on to stop()
GuardReturns(o) == o \in {"ok", "loading"}

GuardProbeStopsFirst(c) ==
    /\ calls[c].pc = "guard"
    /\ \E o \in HealthOutcomes :
          calls' = [calls EXCEPT ![c] = IF GuardReturns(o) THEN [NoCall EXCEPT !.pc = "done", !.ok = (o = "ok")]
                                        ELSE [@ EXCEPT !.pc = "stopped"]]
    /\ bridgeProcess' = stop(bridgeProcess, procs).bridgeProcess
    /\ procs' = stop(bridgeProcess, procs).procs
    /\ fuser' = fuser + 1
    /\ Log(<<<<StopMsg, FALSE>>>>)
    /\ UNCHANGED configTier
    /\ UNCHANGED orchVars

GuardProbe(c) ==
    /\ calls[c].pc = "guard"
    /\ \E o \in HealthOutcomes :
        IF GuardReturns(o)
        THEN /\ calls' = [calls EXCEPT ![c] = [NoCall EXCEPT !.pc = "done", !.ok = (o = "ok")]]
             /\ UNCHANGED <<bridgeProcess, procs, fuser, logVars>>
        ELSE /\ calls' = [calls EXCEPT ![c].pc = "stopped"]
             /\ bridgeProcess' = stop(bridgeProcess, procs).bridgeProcess
             /\ procs' = stop(bridgeProcess, procs).procs
             /\ fuser' = fuser + 1
             /\ Log(<<<<StopMsg, FALSE>>>>)
    /\ UNCHANGED configTier
    /\ UNCHANGED orchVars

\* after `await this.stop()`: resolve the tier, spawn, track the handle, first probe
SpawnTier(c) == IF calls[c].tier = "none" THEN activeTier ELSE calls[c].tier

Spawn(c) ==
    /\ calls[c].pc = "stopped"
    /\ FreePids # {}
    /\ LET p == Min(FreePids) IN
        /\ procs' = [procs EXCEPT ![p] = [st |-> "starting", tier |-> SpawnTier(c), sig |-> FALSE]]
        /\ bridgeProcess' = p
        /\ calls' = [calls EXCEPT ![c].pc = "poll", ![c].tier = "none", ![c].pid = p]
    /\ Log(<<<<<<"starting", SpawnTier(c)>>, FALSE>>>>)
    /\ UNCHANGED <<configTier, fuser>>
    /\ UNCHANGED orchVars

\* one iteration of the poll loop: a health probe, then the 1 s sleep; after the
\* last iteration start() logs the timeout and returns
\* `i < 300` after `i++`: the loop goes round again
MoreIterationsAlways(i) == TRUE

MoreIterations(i) == i + 1 < PollLimit

TimeoutLogAsInfo == <<<<<<"startup timed out">>, FALSE>>>>

\* this.addLog("Bridge startup timed out after 5m", true)
TimeoutLog == <<<<<<"startup timed out">>, TRUE>>>>

\* (cap: how many iterations of one call the model follows)
PollWithin(c, cap) ==
    /\ calls[c].pc = "poll"
    /\ \E o \in HealthOutcomes :
        IF o = "ok"
        THEN /\ calls' = [calls EXCEPT ![c] = [NoCall EXCEPT !.pc = "done", !.ok = TRUE]]
             /\ Log(<<<<<<"health check passed">>, FALSE>>>>)
        ELSE /\ calls[c].i < cap
             /\ LET loading == IF o = "loading"
                               THEN <<<<<<"loading model weights">>, FALSE>>>> ELSE <<>>
                IN  IF MoreIterations(calls[c].i)
                    THEN /\ calls' = [calls EXCEPT ![c].i = @ + 1]
                         /\ Log(loading)
                    ELSE /\ calls' = [calls EXCEPT ![c] = [NoCall EXCEPT !.pc = "done"]]
                         /\ Log(loading \o TimeoutLog)
    /\ UNCHANGED <<bridgeProcess, procs, configTier, fuser>>
    /\ UNCHANGED orchVars

Poll(c) == PollWithin(c, MaxPoll)

\* the poll loop followed to its end
PollLoop(c) == PollWithin(c, PollLimit)

(***************************************************************************)
(* The bridge subprocess and the port                                      *)
(***************************************************************************)
\* the bridge binds port 5000 and answers /health with "loading"
ProcBind(p) ==
    /\ procs[p].st = "starting"
    /\ PortHolder = {}
    /\ procs' = [procs EXCEPT ![p].st = "loading"]
    /\ UNCHANGED <<bridgeProcess, configTier, calls, fuser, logVars>>
    /\ UNCHANGED orchVars

\* the model is loaded: /health answers "ok"
ProcReady(p) ==
    /\ procs[p].st = "loading"
    /\ procs' = [procs EXCEPT ![p].st = "ready"]
    /\ UNCHANGED <<bridgeProcess, configTier, calls, fuser, logVars>>
    /\ UNCHANGED orchVars

\* the process exits after SIGTERM; its "close" handler logs
CloseMsg == <<<<"bridge process closed">>, TRUE>>

ProcExit(p) ==
    /\ Alive(p)
    /\ procs[p].sig
    /\ procs' = [procs EXCEPT ![p] = Exited]
    /\ Log(<<CloseMsg>>)
    /\ UNCHANGED <<bridgeProcess, configTier, calls, fuser>>
    /\ UNCHANGED orchVars

\* the process exits on its own, without having been signalled
ProcCrash(p) ==
    /\ Alive(p)
    /\ ~procs[p].sig
    /\ procs' = [procs EXCEPT ![p] = Exited]
    /\ Log(<<CloseMsg>>)
    /\ UNCHANGED <<bridgeProcess, configTier, calls, fuser>>
    /\ UNCHANGED orchVars

\* a pending `fuser -k 5000/tcp` runs: whatever listens on the port is killed
FuserRun ==
    /\ fuser > 0
    /\ fuser' = fuser - 1
    /\ IF PortHolder = {}
       THEN UNCHANGED <<procs, logVars>>
       ELSE /\ procs' = [p \in Pids |->
                            IF p \in PortHolder
                            THEN Exited
                            ELSE procs[p]]
            /\ Log(<<CloseMsg>>)
    /\ UNCHANGED <<bridgeProcess, configTier, calls>>
    /\ UNCHANGED orchVars

(***************************************************************************)
(* ModelService.install                                                    *)
(***************************************************************************)
NoInstall == [pc |-> "idle", tier |-> "none", hasVenv |-> FALSE]

\* the commands of install(tier), in order: the venv when .venv is missing, pip,
\* the base packages, the VLM packages for lite and pro, bitsandbytes for lite
Commands(tier, hasVenv) ==
    (IF hasVenv THEN <<>> ELSE <<"venv">>) \o <<"pip", "base">>
    \o (IF tier \in {"lite", "pro"} THEN <<"vlm">> ELSE <<>>)
    \o (IF tier = "lite" THEN <<"bitsandbytes">> ELSE <<>>)

\* the command that follows cmd
NextCommand(cmds, cmd) ==
    LET k == CHOOSE j \in 1..Len(cmds) : cmds[j] = cmd
    IN  IF k < Len(cmds) THEN cmds[k + 1] ELSE "none"

\* what install logs before it runs a command
BeforeCommand(cmd, tier) ==
    IF cmd = "vlm" THEN <<<<<<"installing VLM dependencies", tier>>, FALSE>>>> ELSE <<>>

\* POST /api/paddle/install: install(tier) up to its first runCommand
Install(tier, hasVenv) ==
    /\ inst.pc = "idle"
    /\ inst' = [pc |-> Head(Commands(tier, hasVenv)), tier |-> tier, hasVenv |-> hasVenv]
    /\ Log(<<<<<<"updating environment", tier>>, FALSE>>>>)
    /\ UNCHANGED <<supVars, req, orch, streams, prov, saved, probes>>

\* the "close" event of the running command: runCommand resolves on exit code 0
\* and rejects otherwise; a rejection ends install, whose promise rejects; after
\* the last command install logs and calls setActiveTier(tier)
CommandClose(code) ==
    /\ inst.pc \notin {"idle", "done", "rejected"}
    /\ LET next == NextCommand(Commands(inst.tier, inst.hasVenv), inst.pc)
       IN  IF code # 0
           THEN /\ inst' = [inst EXCEPT !.pc = "rejected"]
                /\ UNCHANGED <<supVars, logVars>>
           ELSE IF next # "none"
           THEN /\ inst' = [inst EXCEPT !.pc = next]
                /\ Log(BeforeCommand(next, inst.tier))
                /\ UNCHANGED supVars
           ELSE /\ FreeCalls # {}
                /\ inst' = [inst EXCEPT !.pc = "done"]
                /\ configTier' = inst.tier
                /\ StartEnter(Min(FreeCalls), inst.tier,
                              <<<<<<"environment configured", inst.tier>>, FALSE>>,
                                <<<<"switching", inst.tier>>, FALSE>>>>)
    /\ UNCHANGED <<req, orch, streams, prov, saved, probes>>

(***************************************************************************)
(* Requests, provider selection                                            *)
(***************************************************************************)
Undefined == "undefined"
Strategies == {"A", "B", "C"}
GeminiUrl == "https://generativelanguage.googleapis.com"
OllamaUrl == "http://localhost:11434"
OpenAIUrl == "https://api.openai.com/v1"
PaddleModel == "PaddleOCR-VL-1.5"
DefaultModel == "gemini-2.0-flash"

Configs ==
    {[baseUrl |-> OllamaUrl, model |-> PaddleModel],
     [baseUrl |-> GeminiUrl, model |-> PaddleModel],
     [baseUrl |-> GeminiUrl, model |-> DefaultModel],
     [baseUrl |-> OpenAIUrl, model |-> DefaultModel],
     [baseUrl |-> OllamaUrl, model |-> DefaultModel]}

\* the ExtractionRequest of the body
Requests ==
    {[ocr_text |-> <<"t">>, image_context |-> "ctx", base64_image |-> "img"],
     [ocr_text |-> <<>>, image_context |-> Undefined, base64_image |-> "img"]}

NoRequest == [ocr_text |-> <<>>, image_context |-> Undefined, base64_image |-> Undefined]

getProviderUrlFirst(config) ==
    IF config.baseUrl = GeminiUrl THEN "Gemini"
    ELSE IF config.model = PaddleModel THEN "Paddle"
    ELSE "OpenAI"

getProvider(config) ==
    IF config.model = PaddleModel THEN "Paddle"
    ELSE IF config.baseUrl = GeminiUrl THEN "Gemini"
    ELSE "OpenAI"

isOllama(config) == config.baseUrl = OllamaUrl

\* { ...request, ocr_text: ocrData, base64_image: undefined }
DerivedRequestKeepsImage(request, ocrData) == [request EXCEPT !.ocr_text = ocrData]

DerivedRequest(request, ocrData) ==
    [request EXCEPT !.ocr_text = ocrData, !.base64_image = Undefined]

(***************************************************************************)
(* Streams                                                                 *)
(***************************************************************************)
\* "out" is the stream handed to the caller; in Chained mode "ocr" and "llm"
\* are the streams of the two stages
StreamIds == {"out", "ocr", "llm"}
\* (cancelled: the consumer has cancelled the stream)
NoStream == [q |-> <<>>, closed |-> FALSE, rd |-> 0, cancelled |-> FALSE]
\* (whole: history, the response body as the backend sent it; live: after that body
\* the backend keeps the response open and goes on sending blank keep-alive lines;
\* beat: history, the parity of the keep-alive lines read;
\* probedOk: history, a health probe of the provider or of a start() it awaited
\* has reported status ok)
NoRun == [name |-> "none", pc |-> "idle", request |-> NoRequest,
          lineBuffer |-> <<>>, acc |-> <<>>, body |-> <<>>, whole |-> <<>>, call |-> 0,
          live |-> FALSE, beat |-> FALSE, probedOk |-> FALSE]

Encoded(sid, frames) == [k \in 1..Len(frames) |-> Chunk(sid, frames[k])]

EnqueueNeverCloses(strs, sid, frames, close) ==
    [strs EXCEPT ![sid].q = @ \o Encoded(sid, frames)]

\* controller.enqueue of each frame, then controller.close() when asked; on a
\* stream its consumer has cancelled both throw and the stream stays as it is
Enqueue(strs, sid, frames, close) ==
    IF strs[sid].cancelled THEN strs
    ELSE [strs EXCEPT ![sid].q = @ \o Encoded(sid, frames),
                      ![sid].closed = @ \/ close]

\* the frames a stream has carried so far
Frames(sid) == [k \in 1..Len(streams[sid].q) |->
                   Parse(SubSeq(streams[sid].q[k].bytes, 1, Len(streams[sid].q[k].bytes) - 1))]

(***************************************************************************)
(* Backends of the LLM providers                                           *)
(***************************************************************************)
\* a streamed line carrying a token: "<" and ">" stand for the JSON envelope
DataLine(token) == <<"data: ", "<">> \o token \o <<">", "NL">>
JsonLine(token) == <<"<">> \o token \o <<">", "NL">>

\* the response bodies a backend may stream
Bodies(sse) ==
    IF sse
    THEN {DataLine(<<"{", "k">>) \o DataLine(<<"}">>),
          DataLine(<<"p">>) \o <<"data: ", "[DONE]", "NL">>,
          <<"NL">> \o DataLine(<<"p", "{", "}">>) \o <<"data: ", "<", "p">>,
          DataLine(<<"{", "k">>) \o <<"data: ", "<", "}", ">">>,
          <<>>}
    ELSE {JsonLine(<<"{", "k">>) \o JsonLine(<<"}">>),
          JsonLine(<<"p">>) \o <<"data: ", "[DONE]", "NL">>,
          <<"NL">> \o JsonLine(<<"p", "[", "]">>) \o <<"<", "p">>,
          JsonLine(<<"{", "k">>) \o <<"<", "}", ">">>,
          <<>>}

\* JSON.parse of an envelope and the token in it; <<>> when it throws or is empty
Envelope(str) ==
    IF /\ Len(str) >= 2 /\ str[1] = "<" /\ str[Len(str)] = ">"
       /\ \A k \in 2..(Len(str) - 1) : str[k] \notin {"<", ">", "data: ", "[DONE]"}
    THEN SubSeq(str, 2, Len(str) - 1)
    ELSE <<>>

\* the token of one complete line
TokenOf(name, ollama, line) ==
    IF line = <<>> THEN <<>>
    ELSE IF name = "Gemini"
         THEN IF line[1] = "data: " THEN Envelope(Tail(line)) ELSE <<>>
    ELSE IF ollama THEN Envelope(line)
    ELSE IF line[1] = "data: " /\ Tail(line) # <<"[DONE]">> THEN Envelope(Tail(line))
    ELSE <<>>

NonEmptyAlways(token) == TRUE

\* if (token)
NonEmpty(token) == token # <<>>

Tokens(name, ollama, lines) ==
    SelectSeq([k \in 1..Len(lines) |-> TokenOf(name, ollama, lines[k])], NonEmpty)

RECURSIVE Flatten(_)
Flatten(seqs) == IF seqs = <<>> THEN <<>> ELSE Head(seqs) \o Flatten(Tail(seqs))

SynthLogs(tokens) == [k \in 1..Len(tokens) |-> LogFrame("SYNTH", tokens[k])]

InitLogsWithoutInit(name) ==
    <<LogFrame("EXEC", <<"[HTTP]">>)>>
    \o (IF name = "Gemini" THEN <<LogFrame("EXEC", <<"[PAYLOAD]">>)>> ELSE <<>>)

\* the frames enqueued when the stream starts
InitLogs(name) ==
    <<LogFrame("EXEC", <<"[INIT]">>), LogFrame("EXEC", <<"[HTTP]">>)>>
    \o (IF name = "Gemini" THEN <<LogFrame("EXEC", <<"[PAYLOAD]">>)>> ELSE <<>>)

(***************************************************************************)
(* saveEvent                                                               *)
(***************************************************************************)
\* what a provider does with its event: saveEvent(event), then the final frame;
\* when saveEvent throws, the catch block's error frame. Either way the stream closes.
SaveOutcomes == {"saved", "insert failed"}

AfterSave(o, event) ==
    IF o = "saved" THEN <<FinalFrame(event)>> ELSE <<ErrorFrame(<<o>>)>>

saveEvent(o, event) == IF o = "saved" THEN Append(saved, event) ELSE saved

(***************************************************************************)
(* GeminiProvider and OpenAIProvider: streamExtraction                     *)
(***************************************************************************)
NewRun(name, request) ==
    [NoRun EXCEPT !.name = name, !.request = request,
                  !.pc = IF name = "Paddle" THEN "health" ELSE "fetch"]

\* what the construction of the provider's stream enqueues at once
StartStream(strs, sid, name) ==
    Enqueue(strs, sid, IF name = "Paddle" THEN <<LogFrame("EXEC", <<"[INIT]">>)>> ELSE <<>>, FALSE)

FetchOutcomes == {"network error", "status 500", "ok"}

\* `await fetch(...)` and the `!response.ok` test, both outside the try block: a
\* failure rejects streamExtraction. In Direct mode that rejects orchestrateExtraction;
\* in Chained mode the orchestrator's catch block turns it into an error frame.
ProviderFetch(sid) ==
    /\ prov[sid].pc = "fetch"
    /\ \E o \in FetchOutcomes :
        IF o = "ok"
        THEN /\ \E b \in Bodies(prov[sid].name = "Gemini" \/ ~isOllama(req.config)) :
                  prov' = [prov EXCEPT ![sid].pc = "read", ![sid].body = b, ![sid].whole = b]
             /\ streams' = Enqueue(streams, sid, InitLogs(prov[sid].name), FALSE)
             /\ orch' = [orch EXCEPT !.pc = IF sid = "out" THEN "returned" ELSE "relay_llm"]
        ELSE /\ prov' = [prov EXCEPT ![sid].pc = "rejected"]
             /\ IF sid = "out"
                THEN /\ orch' = [orch EXCEPT !.pc = "rejected"]
                     /\ UNCHANGED streams
                ELSE /\ orch' = [orch EXCEPT !.pc = "done"]
                     /\ streams' = Enqueue(streams, "out", <<ErrorFrame(<<o>>)>>, TRUE)
    /\ UNCHANGED <<adminVars, req, saved, supVars, logVars>>

KeptNothing(lines) == <<>>

\* lineBuffer = lines.pop() || ""
Kept(lines) == lines[Len(lines)]

\* the lines that are complete: all but the popped one
Complete(lines) == SubSeq(lines, 1, Len(lines) - 1)

\* Gemini enqueues inside the try block whose catch is `continue`; OpenAI enqueues
\* after it, so that a throwing enqueue leaves the read loop
EnqueueGuarded(name) == name = "Gemini"

\* the body of the read loop for one chunk; rest is what the backend has yet to send.
\* When the stream was cancelled, controller.enqueue throws: the Gemini provider
\* swallows that and goes on, in the OpenAI provider the first token's enqueue
\* throws into the outer catch block, whose enqueue throws again: start() rejects.
Received(sid, chunk, rest, beat) ==
    LET lines == Split(prov[sid].lineBuffer \o chunk)
        tokens == Tokens(prov[sid].name, isOllama(req.config), Complete(lines))
        thrown == /\ streams[sid].cancelled
                  /\ tokens # <<>>
                  /\ ~EnqueueGuarded(prov[sid].name)
    IN  /\ prov' = [prov EXCEPT ![sid].lineBuffer = Kept(lines),
                                ![sid].acc = @ \o (IF thrown THEN tokens[1] ELSE Flatten(tokens)),
                                ![sid].body = rest,
                                ![sid].beat = beat,
                                ![sid].pc = IF thrown THEN "closed" ELSE @]
        /\ streams' = Enqueue(streams, sid, SynthLogs(tokens), FALSE)

\* one `await reader.read()` that yields bytes: complete lines are processed, the
\* rest stays in lineBuffer
ProviderRead(sid) ==
    /\ prov[sid].pc = "read"
    /\ prov[sid].body # <<>>
    /\ \E n \in 1..Len(prov[sid].body) :
        Received(sid, SubSeq(prov[sid].body, 1, n),
                 SubSeq(prov[sid].body, n + 1, Len(prov[sid].body)), prov[sid].beat)
    /\ UNCHANGED <<adminVars, req, orch, saved, supVars, logVars>>

\* one `await reader.read()` that yields a keep-alive line of a backend that does
\* not end its response
ProviderReadKeepAlive(sid) ==
    /\ prov[sid].pc = "read"
    /\ prov[sid].body = <<>>
    /\ prov[sid].live
    /\ Received(sid, <<"NL">>, <<>>, ~prov[sid].beat)
    /\ UNCHANGED <<adminVars, req, orch, saved, supVars, logVars>>

\* `await reader.read()` rejects: the connection dropped
ProviderReadFails(sid) ==
    /\ prov[sid].pc = "read"
    /\ prov' = [prov EXCEPT ![sid].pc = "closed"]
    /\ streams' = Enqueue(streams, sid, <<ErrorFrame(<<"network error">>)>>, TRUE)
    /\ UNCHANGED <<adminVars, req, orch, saved, supVars, logVars>>

\* `done`: the [COMPLETE] log, JSON recovery, JSON.parse, saveEvent, the terminal frame
ProviderDone(sid) ==
    /\ prov[sid].pc = "read"
    /\ prov[sid].body = <<>>
    /\ ~prov[sid].live
    /\ prov' = [prov EXCEPT ![sid].pc = "closed"]
    /\ LET text == Recovered(prov[sid].acc)
           event == [kind |-> "json", text |-> text]
       IN  IF streams[sid].cancelled
           \* the [COMPLETE] enqueue throws, and so does the catch block's
           THEN UNCHANGED <<streams, saved>>
           ELSE IF IsJson(text)
           THEN \E o \in SaveOutcomes :
                   /\ saved' = saveEvent(o, event)
                   /\ streams' = Enqueue(streams, sid,
                                    <<LogFrame("EXEC", <<"[COMPLETE]">>)>> \o AfterSave(o, event), TRUE)
           ELSE /\ streams' = Enqueue(streams, sid,
                                <<LogFrame("EXEC", <<"[COMPLETE]">>), ErrorFrame(SyntaxErrorMessage(text))>>, TRUE)
                /\ UNCHANGED saved
    /\ UNCHANGED <<adminVars, req, orch, supVars, logVars>>

(***************************************************************************)
(* checkHealth of the providers                                            *)
(***************************************************************************)
\* what a health probe meets: the connection is refused, the probe times out, or
\* the backend answers with a status and a body
ProbeOutcomes ==
    {[kind |-> k, status |-> 0, body |-> "none"] : k \in {"refused", "timeout"}}
    \cup {[kind |-> "response", status |-> st, body |-> b] :
            st \in {200, 500}, b \in {"ok", "loading", "garbage"}}

\* `await fetch(...)` rejects
Rejects(probe) == probe.kind \in {"refused", "timeout"}

\* res.ok
ResOk(probe) == probe.status >= 200 /\ probe.status <= 299

Returns(value) == [threw |-> FALSE, value |-> value]

\* checkHealth(): the whole body is in a try block whose catch returns false
checkHealthNoCatch(name, probe) == [threw |-> Rejects(probe), value |-> ResOk(probe)]

checkHealth(name, probe) ==
    IF Rejects(probe) THEN Returns(FALSE)
    ELSE IF name = "Paddle"
         THEN IF ~ResOk(probe) THEN Returns(FALSE)
              ELSE IF probe.body = "garbage" THEN Returns(FALSE)
              ELSE Returns(probe.body = "ok")
    ELSE Returns(ResOk(probe))

\* the probe that a bridge in a given state of health answers
ProbeOf(o) ==
    CASE o = "ok" -> [kind |-> "response", status |-> 200, body |-> "ok"]
      [] o = "loading" -> [kind |-> "response", status |-> 200, body |-> "loading"]
      [] OTHER -> [kind |-> "timeout", status |-> 0, body |-> "none"]

\* POST /api/health: ProviderService.checkHealth(config)
CheckHealth(config, probe) ==
    /\ Len(probes) < MaxProbes
    /\ probes' = Append(probes, [config |-> config, name |-> getProvider(config), probe |-> probe,
                                 result |-> checkHealth(getProvider(config), probe)])
    /\ UNCHANGED <<inst, req, orch, streams, prov, saved, supVars, logVars>>

(***************************************************************************)
(* PaddleProvider: streamExtraction                                        *)
(***************************************************************************)
OcrLogs == <<LogFrame("EXEC", <<"[HTTP]">>), LogFrame("EXEC", <<"[LOCAL]">>)>>

NeedsSwitchAlways(tier) == TRUE

\* status.activeTier === "eco"
NeedsSwitch(tier) == tier = "eco"

\* getStatus().activeTier === "eco": setActiveTier("lite"), then the 5 s wait;
\* otherwise straight on to the POST
\* (cs: the activation records that the start() of setActiveTier may take: a free
\* one, or the one of the start() that has just returned to this provider;
\* ok: whether a probe has reported status ok to this provider so far)
PaddleTierCheck(sid, frames, cs, ok) ==
    IF NeedsSwitch(activeTier)
    THEN /\ cs # {}
         /\ configTier' = "lite"
         /\ StartEnter(Min(cs), "lite", <<<<<<"switching", "lite">>, FALSE>>>>)
         /\ prov' = [prov EXCEPT ![sid].pc = "sleep", ![sid].call = 0, ![sid].probedOk = ok]
         /\ streams' = Enqueue(streams, sid, frames \o <<LogFrame("EXEC", <<"[SYSTEM] switching">>)>>, FALSE)
    ELSE /\ prov' = [prov EXCEPT ![sid].pc = "ocr", ![sid].call = 0, ![sid].probedOk = ok]
         /\ streams' = Enqueue(streams, sid, frames \o OcrLogs, FALSE)
         /\ UNCHANGED <<supVars, logVars>>

\* `await self.checkHealth()`; not healthy: the log and `await ModelService.start()`
PaddleHealth(sid) ==
    /\ prov[sid].pc = "health"
    /\ \E o \in HealthOutcomes :
        IF checkHealth("Paddle", ProbeOf(o)).value
        THEN PaddleTierCheck(sid, <<>>, FreeCalls, TRUE)
        ELSE /\ FreeCalls # {}
             /\ StartEnter(Min(FreeCalls), "none", <<>>)
             /\ prov' = [prov EXCEPT ![sid].pc = "starting", ![sid].call = Min(FreeCalls)]
             /\ streams' = Enqueue(streams, sid, <<LogFrame("EXEC", <<"[SYSTEM] not ready">>)>>, FALSE)
             /\ UNCHANGED configTier
    /\ UNCHANGED <<adminVars, req, orch, saved>>

\* ModelService.start() has returned
PaddleStarted(sid) ==
    /\ prov[sid].pc = "starting"
    /\ calls[prov[sid].call].pc = "done"
    /\ PaddleTierCheck(sid, <<>>, {prov[sid].call}, calls[prov[sid].call].ok)
    /\ UNCHANGED <<adminVars, req, orch, saved>>

\* the 5 s are over: `await ModelService.start()`
PaddleWake(sid) ==
    /\ prov[sid].pc = "sleep"
    /\ FreeCalls # {}
    /\ StartEnter(Min(FreeCalls), "none", <<>>)
    /\ prov' = [prov EXCEPT ![sid].pc = "restarting", ![sid].call = Min(FreeCalls)]
    /\ UNCHANGED <<configTier, adminVars, req, orch, streams, saved>>

PaddleRestarted(sid) ==
    /\ prov[sid].pc = "restarting"
    /\ calls[prov[sid].call].pc = "done"
    /\ prov' = [prov EXCEPT ![sid].pc = "ocr", ![sid].call = 0,
                            ![sid].probedOk = @ \/ calls[prov[sid].call].ok]
    /\ streams' = Enqueue(streams, sid, OcrLogs, FALSE)
    /\ UNCHANGED <<adminVars, req, orch, saved, supVars, logVars>>

\* what the bridge may answer as `result`
OcrTexts == {<<>>, <<"a">>, <<"a", "NL", "Q", "BS", "b">>}

\* POST /ocr: a failure or a non-2xx answer ends in the catch block; a 2xx answer
\* (it takes a bridge on the port) gives the text, saveEvent and the final frame
PaddleOcr(sid) ==
    /\ prov[sid].pc = "ocr"
    /\ \/ \E o \in FetchOutcomes \ {"ok"} :
            /\ prov' = [prov EXCEPT ![sid].pc = "closed"]
            /\ streams' = Enqueue(streams, sid, <<ErrorFrame(<<o>>)>>, TRUE)
            /\ UNCHANGED saved
       \/ /\ PortHolder # {}
          /\ \E text \in OcrTexts, o \in SaveOutcomes :
              LET event == [kind |-> "ocr", text |-> text]
              IN  /\ prov' = [prov EXCEPT ![sid].pc = "closed", ![sid].acc = text]
                  /\ saved' = saveEvent(o, event)
                  /\ streams' = Enqueue(streams, sid,
                                   <<LogFrame("EXEC", <<"[DONE]">>), LogFrame("SYNTH", text)>>
                                   \o AfterSave(o, event), TRUE)
    /\ UNCHANGED <<adminVars, req, orch, supVars, logVars>>

(***************************************************************************)
(* ProviderService.orchestrateExtraction                                   *)
(***************************************************************************)
\* Direct mode hands the provider's own stream to the caller; Chained mode starts
\* the Paddle stage and returns the relay stream
IsChainedUnlessKnown(strategy) == strategy \notin {"A", "C"}

\* if (strategy === "B")
IsChained(strategy) == strategy = "B"

OrchestrateExtraction ==
    /\ orch.pc = "idle"
    /\ IF IsChained(req.strategy)
       THEN /\ prov' = [prov EXCEPT !["ocr"] = NewRun("Paddle", req.request)]
            /\ streams' = StartStream(streams, "ocr", "Paddle")
            /\ orch' = [orch EXCEPT !.pc = "relay_ocr"]
       ELSE /\ prov' = [prov EXCEPT !["out"] = NewRun(getProvider(req.config), req.request)]
            /\ streams' = StartStream(streams, "out", getProvider(req.config))
            /\ orch' = [orch EXCEPT !.pc = IF getProvider(req.config) = "Paddle"
                                           THEN "returned" ELSE "await"]
    /\ UNCHANGED <<adminVars, req, saved, supVars, logVars>>

\* msg.event.extracted_text || ""
extracted_text(msg) == IF msg.tag = "ocr" THEN msg.text ELSE <<>>

IsFinal(msg) == msg.type = "final"

\* the last `final` line of a chunk gives ocrData; lines that do not parse are skipped
OcrDataAfter(ocrData, bytes) ==
    LET lines == Split(bytes)
        finals == SelectSeq([k \in 1..Len(lines) |-> Parse(lines[k])], IsFinal)
    IN  IF finals = <<>> THEN ocrData ELSE extracted_text(finals[Len(finals)])

\* the first loop: one chunk of the OCR stage is relayed and scanned
RelayOcr ==
    /\ orch.pc = "relay_ocr"
    /\ streams["ocr"].rd < Len(streams["ocr"].q)
    /\ LET value == streams["ocr"].q[streams["ocr"].rd + 1]
       IN  /\ streams' = [streams EXCEPT !["ocr"].rd = @ + 1, !["out"].q = Append(@, value)]
           /\ orch' = [orch EXCEPT !.ocrData = OcrDataAfter(@, value.bytes)]
    /\ UNCHANGED <<adminVars, req, prov, saved, supVars, logVars>>

\* ocrReader.read() reports done
DrainedAlways(str) == TRUE

Drained(str) == str.closed /\ str.rd = Len(str.q)

\* the OCR stage is over: the second stage is started on the derived request
StartLlm ==
    /\ orch.pc = "relay_ocr"
    /\ Drained(streams["ocr"])
    /\ prov' = [prov EXCEPT !["llm"] = NewRun(getProvider(req.config),
                                              DerivedRequest(req.request, orch.ocrData))]
    /\ streams' = StartStream(streams, "llm", getProvider(req.config))
    /\ orch' = [orch EXCEPT !.pc = IF getProvider(req.config) = "Paddle"
                                   THEN "relay_llm" ELSE "await_llm"]
    /\ UNCHANGED <<adminVars, req, saved, supVars, logVars>>

\* the second loop
RelayLlm ==
    /\ orch.pc = "relay_llm"
    /\ streams["llm"].rd < Len(streams["llm"].q)
    /\ streams' = [streams EXCEPT !["llm"].rd = @ + 1,
                                  !["out"].q = Append(@, streams["llm"].q[streams["llm"].rd + 1])]
    /\ UNCHANGED <<adminVars, req, orch, prov, saved, supVars, logVars>>

\* llmReader.read() reports done: controller.close()
RelayDone ==
    /\ orch.pc = "relay_llm"
    /\ Drained(streams["llm"])
    /\ streams' = [streams EXCEPT !["out"].closed = TRUE]
    /\ orch' = [orch EXCEPT !.pc = "done"]
    /\ UNCHANGED <<adminVars, req, prov, saved, supVars, logVars>>

\* no extraction request is in progress
NoExtraction == [strategy |-> "A", config |-> [baseUrl |-> OllamaUrl, model |-> DefaultModel], request |-> NoRequest]

OrchIdle ==
    /\ orch = [pc |-> "idle", ocrData |-> <<>>]
    /\ streams = [sid \in StreamIds |-> NoStream]
    /\ prov = [sid \in StreamIds |-> NoRun]
    /\ saved = <<>>
    /\ probes = <<>>
    /\ inst = NoInstall

(***************************************************************************)
(* Specification of the supervisor                                         *)
(***************************************************************************)
\* the server has started: ModelService.start("eco") has run up to `await this.stop()`
Boot ==
    /\ bridgeProcess = 0
    /\ procs = [p \in Pids |-> NoProc]
    /\ calls = [c \in CallIds |-> IF c = 1 THEN [NoCall EXCEPT !.pc = "stopped", !.tier = "eco"] ELSE NoCall]
    /\ fuser = 1
    /\ bridgeLogs = addLogs(<<>>, <<<<StopMsg, FALSE>>>>)
    /\ sinceDrain = LoggedAll(<<<<StopMsg, FALSE>>>>)
    /\ adds = 0
    /\ reads = <<>>
    /\ OrchIdle
    /\ req = NoExtraction

Init ==
    /\ Boot
    /\ configTier = "none"

NextSup ==
    \/ Start
    \/ \E t \in TierInputs : SetActiveTier(t)
    \/ \E c \in CallIds : GuardProbe(c)
    \/ \E c \in CallIds : Spawn(c)
    \/ \E c \in CallIds : Poll(c)
    \/ \E p \in Pids : ProcBind(p)
    \/ \E p \in Pids : ProcReady(p)
    \/ \E p \in Pids : ProcExit(p)
    \/ \E p \in Pids : ProcCrash(p)
    \/ FuserRun

SpecSup == Init /\ [][NextSup]_vars

(***************************************************************************)
(* setActiveTier("lite") twice in a row, on a server whose bridge runs     *)
(***************************************************************************)
\* the server has been up for a while: the bridge started at start-up under the
\* default tier is tracked and ready, and no start() is in flight
Running ==
    /\ bridgeProcess = 1
    /\ procs = [p \in Pids |-> IF p = 1 THEN [st |-> "ready", tier |-> "eco", sig |-> FALSE]
                                       ELSE NoProc]
    /\ configTier = "none"
    /\ calls = [c \in CallIds |-> NoCall]
    /\ fuser = 0
    /\ bridgeLogs = addLogs(<<>>, <<<<StopMsg, FALSE>>, <<<<"starting", "eco">>, FALSE>>,
                                    <<<<"health check passed">>, FALSE>>>>)
    /\ sinceDrain = bridgeLogs
    /\ adds = 0
    /\ reads = <<>>
    /\ OrchIdle
    /\ req = NoExtraction

\* the second call is issued while the start() of the first is in flight
NextTwice ==
    \/ /\ calls[1].pc = "free"
       /\ SetActiveTier("lite")
    \/ /\ calls[1].pc \notin {"free", "done"}
       /\ calls[2].pc = "free"
       /\ SetActiveTier("lite")
    \/ \E c \in CallIds : GuardProbe(c)
    \/ \E c \in CallIds : Spawn(c)
    \/ \E c \in CallIds : Poll(c)
    \/ \E p \in Pids : ProcBind(p)
    \/ \E p \in Pids : ProcReady(p)
    \/ \E p \in Pids : ProcExit(p)
    \/ FuserRun

SpecTwice == Running /\ [][NextTwice]_vars

(***************************************************************************)
(* Claims about the supervisor                                             *)
(***************************************************************************)
\* the subprocesses that were spawned, still exist and were not sent a signal
Unsignalled == {p \in Pids : Alive(p) /\ ~procs[p].sig}

\* C7: at every moment at most one spawned subprocess that was not sent a
\* termination signal exists, and it is the one the tracked handle references.
C7_AtMostOneLiveProcess ==
    /\ Cardinality(Unsignalled) <= 1
    /\ Unsignalled \subseteq {bridgeProcess}

\* C8: the start(t) that setActiveTier(t) issues always restarts: it never returns
\* from its guard, it returns only after stop() and a spawn with --tier t.
C8_SetActiveTierRestarts ==
    [][\A c \in CallIds :
        calls[c].tier \in Tiers =>
            /\ calls[c].pc = "guard" => calls'[c].pc # "done"
            /\ (calls[c].pc = "stopped" /\ calls'[c].pc = "poll") =>
                  /\ bridgeProcess' # 0
                  /\ procs'[bridgeProcess'].tier = calls[c].tier]_vars

\* C9: once both setActiveTier("lite") calls have finished, the persisted tier is
\* lite, the tracked process runs under lite, and no other live process exists.
C9_TwiceEndsUnderLite ==
    (calls[1].pc = "done" /\ calls[2].pc = "done") =>
        /\ configTier = "lite"
        /\ bridgeProcess # 0
        /\ Alive(bridgeProcess)
        /\ procs[bridgeProcess].tier = "lite"
        /\ Unsignalled \subseteq {bridgeProcess}

\* C24: a start() that finds a live tracked process and gets a successful health
\* probe is a no-op: from its entry to its return it runs no stop(), signals and
\* spawns nothing, and leaves the handle, the log and (called without setActiveTier)
\* the persisted tier as they were.
C24_StartIsNoOpWhenHealthy ==
    [][\A c \in CallIds :
         /\ (calls[c].pc = "free" /\ calls'[c].pc = "guard") =>
               /\ UNCHANGED <<bridgeProcess, procs, fuser>>
               /\ calls'[c].tier = "none" => UNCHANGED <<configTier, logVars>>
         /\ (calls[c].pc = "guard" /\ calls'[c].pc = "done") =>
               UNCHANGED <<bridgeProcess, procs, fuser, configTier, logVars>>]_vars

\* the second start() returned from its guard: no second process was spawned and
\* the first one is still tracked, alive and unsignalled
C24_Witness ==
    /\ \A c \in CallIds : calls[c].pc = "done"
    /\ bridgeProcess = 1
    /\ Alive(1) /\ ~procs[1].sig
    /\ \A p \in Pids : p # 1 => procs[p] = NoProc

\* a step in which stop() ran: it issues the out-of-band command for the port
StopRan == fuser' = fuser + 1

\* C23: when stop() has run no handle is tracked (getStatus().running is false);
\* a tracked live process was sent the termination signal, every other process
\* was left alone, and without a tracked handle no signal was sent.
C23_StopClearsHandle ==
    [][StopRan =>
         /\ bridgeProcess' = 0
         /\ ~(bridgeProcess' # 0 /\ procs'[bridgeProcess'].st \in {"starting", "loading", "ready"})
         /\ (bridgeProcess # 0 /\ Alive(bridgeProcess)) => procs'[bridgeProcess].sig
         /\ \A p \in Pids : p # bridgeProcess => procs'[p] = procs[p]
         /\ bridgeProcess = 0 => procs' = procs]_vars

\* stop() has just signalled the process that was tracked, and nothing is tracked
C23_Witness ==
    /\ bridgeProcess = 0
    /\ \E p \in Pids : Alive(p) /\ procs[p].sig
    /\ \E c \in CallIds : calls[c].pc = "stopped"

(***************************************************************************)
(* The log buffer: output of the bridge, getLogs()                         *)
(***************************************************************************)
\* chunks of output the bridge writes to stdout or stderr
Chunks ==
    { <<Line(<<"boom">>)>>,
      <<Line(<<"INFO: up">>)>>,
      <<Line(<<"boom">>), Line(<<>>), Line(<<"WARNING: x">>)>>,
      <<[txt |-> <<>>, ansi |-> TRUE], [txt |-> <<"info: up">>, ansi |-> TRUE]>> }

\* what the bridge writes: a chunk on stdout (isError FALSE) or on stderr (TRUE)
Outputs ==
    {[data |-> d, isError |-> TRUE] : d \in Chunks \ {<<[txt |-> <<>>, ansi |-> TRUE], [txt |-> <<"info: up">>, ansi |-> TRUE]>>}}
    \cup {[data |-> d, isError |-> FALSE] : d \in Chunks \ {<<Line(<<"boom">>), Line(<<>>), Line(<<"WARNING: x">>)>>}}

\* stdout.on("data") / stderr.on("data"): addLog(data.toString(), isError)
OnData(data, isError) ==
    /\ running
    /\ adds < MaxAdds
    /\ bridgeLogs' = addLog(bridgeLogs, data, isError)
    /\ sinceDrain' = sinceDrain \o Logged(data, isError)
    /\ adds' = adds + 1
    /\ UNCHANGED <<reads, supVars, orchVars>>

\* the clients that poll GET /api/paddle/logs
Readers == {"ui", "cli"}

\* getLogs(): return a copy and clear the buffer
getLogsKeepsBuffer(logs) == [logs |-> logs, bridgeLogs |-> logs]

getLogs(logs) == [logs |-> logs, bridgeLogs |-> <<>>]

\* GET /api/paddle/logs by reader r (a read of the empty buffer returns nothing
\* and changes nothing)
GetLogs(r) ==
    /\ bridgeLogs # <<>>
    /\ bridgeLogs' = getLogs(bridgeLogs).bridgeLogs
    /\ reads' = Append(reads, [reader |-> r, added |-> sinceDrain,
                               slice |-> getLogs(bridgeLogs).logs])
    /\ sinceDrain' = <<>>
    /\ UNCHANGED <<adds, supVars, orchVars>>

\* n lines the bridge has written to stderr
StderrLines(n) ==
    [k \in 1..n |-> Line(IF k % 3 = 1 THEN <<"boom">> ELSE <<"info: up">>)]

\* the server is up, the bridge runs and has written n lines (no more than the
\* buffer holds) since the last getLogs()
InitLog ==
    /\ bridgeProcess = 1
    /\ procs = [p \in Pids |-> IF p = 1 THEN [st |-> "ready", tier |-> "eco", sig |-> FALSE]
                                       ELSE NoProc]
    /\ configTier = "none"
    /\ calls = [c \in CallIds |-> NoCall]
    /\ fuser = 0
    /\ adds = 0
    /\ reads = <<>>
    /\ OrchIdle
    /\ req = NoExtraction
    /\ \E n \in {0, MAX_LOGS - 1, MAX_LOGS} :
        /\ bridgeLogs = Logged(StderrLines(n), TRUE)
        /\ sinceDrain = Logged(StderrLines(n), TRUE)

NextLog ==
    \/ \E o \in Outputs : OnData(o.data, o.isError)
    \/ \E r \in Readers : GetLogs(r)
    \/ \E p \in Pids : ProcCrash(p)

SpecLog == InitLog /\ [][NextLog]_vars

LastN(s, n) ==
    LET m == IF Len(s) < n THEN Len(s) ELSE n
    IN  SubSeq(s, Len(s) - m + 1, Len(s))

\* C10: the log buffer never holds more than 100 entries, and it holds the most
\* recent entries pushed since the last getLogs(), in arrival order (the oldest
\* entry is the one evicted when an entry is added to a full buffer).
C10_LogBufferKeepsNewest ==
    /\ Len(bridgeLogs) <= MAX_LOGS
    /\ bridgeLogs = LastN(sinceDrain, MAX_LOGS)

\* an output chunk was logged to a full buffer and evicted the oldest entries
C10_Witness ==
    /\ adds > 0
    /\ Len(sinceDrain) > MAX_LOGS
    /\ Len(bridgeLogs) = MAX_LOGS
    /\ bridgeLogs[MAX_LOGS] = sinceDrain[Len(sinceDrain)]

\* C11: every getLogs() call returns, in arrival order, entries that were added
\* since the previous getLogs() call (by whichever reader) and that no earlier call
\* returned: each slice is the tail of what was pushed between the previous call
\* and this one, so the slices are disjoint and their concatenation is a
\* subsequence of the entries added.
C11_ReadsAreDisjointSlices ==
    \A k \in 1..Len(reads) :
        /\ Len(reads[k].slice) <= Len(reads[k].added)
        /\ reads[k].slice = LastN(reads[k].added, Len(reads[k].slice))

\* two readers have each drained the buffer, entries having arrived in between
C11_Witness ==
    /\ Len(reads) >= 2
    /\ reads[1].reader # reads[2].reader
    /\ reads[1].slice # <<>>
    /\ reads[2].slice # <<>>
    /\ adds > 0

(***************************************************************************)
(* Specification of one extraction request                                 *)
(***************************************************************************)
\* The server has been up for a while: the bridge was restarted under lite and is
\* ready, the start() activations the model follows are all over. A request with
\* any strategy, provider configuration and body arrives.
InitOrch ==
    /\ bridgeProcess = 1
    /\ configTier = "lite"
    /\ procs = [p \in Pids |-> IF p = 1 THEN [st |-> "ready", tier |-> "lite", sig |-> FALSE]
                                       ELSE NoProc]
    /\ calls = [c \in CallIds |-> [NoCall EXCEPT !.pc = "done"]]
    /\ fuser = 0
    /\ bridgeLogs = <<>>
    /\ sinceDrain = <<>>
    /\ adds = 0
    /\ reads = <<>>
    /\ OrchIdle
    /\ req \in [strategy : Strategies, config : Configs, request : Requests]

NextOrch ==
    \/ OrchestrateExtraction
    \/ RelayOcr
    \/ StartLlm
    \/ RelayLlm
    \/ RelayDone
    \/ \E sid \in StreamIds : ProviderFetch(sid)
    \/ \E sid \in StreamIds : ProviderRead(sid)
    \/ \E sid \in StreamIds : ProviderReadFails(sid)
    \/ \E sid \in StreamIds : ProviderDone(sid)
    \/ \E sid \in StreamIds : PaddleHealth(sid)
    \/ \E sid \in StreamIds : PaddleOcr(sid)
    \/ \E p \in Pids : ProcCrash(p)

SpecOrch == InitOrch /\ [][NextOrch]_vars

(***************************************************************************)
(* Specification of one Paddle extraction with the supervisor at work      *)
(***************************************************************************)
\* the bridge is ready under the persisted tier (the default one when nothing was
\* persisted); a Direct request for the Paddle provider arrives
InitPaddle ==
    /\ bridgeProcess = 1
    /\ configTier \in TierArgs
    /\ procs = [p \in Pids |-> IF p = 1 THEN [st |-> "ready", tier |-> activeTier, sig |-> FALSE]
                                       ELSE NoProc]
    /\ calls = [c \in CallIds |-> NoCall]
    /\ fuser = 0
    /\ bridgeLogs = <<>>
    /\ sinceDrain = <<>>
    /\ adds = 0
    /\ reads = <<>>
    /\ OrchIdle
    /\ req \in [strategy : {"C"}, config : {[baseUrl |-> OllamaUrl, model |-> PaddleModel]},
                request : Requests]

NextPaddle ==
    \/ OrchestrateExtraction
    \/ \E sid \in StreamIds : PaddleHealth(sid)
    \/ \E sid \in StreamIds : PaddleStarted(sid)
    \/ \E sid \in StreamIds : PaddleWake(sid)
    \/ \E sid \in StreamIds : PaddleRestarted(sid)
    \/ \E sid \in StreamIds : PaddleOcr(sid)
    \/ \E c \in CallIds : GuardProbe(c)
    \/ \E c \in CallIds : Spawn(c)
    \/ \E c \in CallIds : Poll(c)
    \/ \E p \in Pids : ProcBind(p)
    \/ \E p \in Pids : ProcReady(p)
    \/ \E p \in Pids : ProcExit(p)
    \/ FuserRun

SpecPaddle == InitPaddle /\ [][NextPaddle]_vars

(***************************************************************************)
(* Readiness steps of the Paddle provider                                  *)
(***************************************************************************)
\* start(tier) was entered in this step
Entered(tier) ==
    \E c \in CallIds :
        /\ calls[c].pc \in {"free", "done"}
        /\ calls'[c].pc \in {"guard", "stopped"}
        /\ calls'[c].tier = tier

Has(sid, frame) == \E k \in 1..Len(Frames(sid)) : Frames(sid)[k] = frame

\* C29: the Paddle provider runs its readiness steps in this order: the health
\* probe; a start() if and only if the probe failed; then, if and only if the
\* active tier is eco, setActiveTier("lite"), the settle delay and another
\* start(); then its single /ocr call. With tier lite or pro nothing is switched.
C29_ReadinessOrder ==
    [][\A sid \in StreamIds :
         LET pc == prov[sid].pc
             to == prov'[sid].pc
         IN  (prov[sid].name = "Paddle" /\ to # pc) =>
               /\ pc = "health" => to \in {"starting", "sleep", "ocr"}
               /\ pc = "starting" => to \in {"sleep", "ocr"} /\ calls[prov[sid].call].pc = "done"
               /\ pc = "sleep" => to = "restarting"
               /\ pc = "restarting" => to = "ocr" /\ calls[prov[sid].call].pc = "done"
               /\ pc = "ocr" => to = "closed"
               /\ to = "closed" => pc = "ocr"
               /\ to = "starting" => Entered("none") /\ UNCHANGED configTier
               /\ to = "sleep" => activeTier = "eco" /\ configTier' = "lite" /\ Entered("lite")
               /\ to = "restarting" => Entered("none") /\ UNCHANGED configTier
               /\ (to = "ocr" /\ pc # "restarting") => activeTier # "eco" /\ UNCHANGED supVars
               /\ to = "ocr" => UNCHANGED supVars]_vars

\* the probe failed and the tier was eco: start(), the switch, the delay, start()
\* again, and now the /ocr call is due
C29_Witness ==
    \E sid \in StreamIds :
        /\ prov[sid].name = "Paddle"
        /\ prov[sid].pc = "ocr"
        /\ Has(sid, LogFrame("EXEC", <<"[SYSTEM] not ready">>))
        /\ Has(sid, LogFrame("EXEC", <<"[SYSTEM] switching">>))

\* C30: when the provider found the active tier eco and switched, the bridge that
\* serves port 5000 when the /ocr call is due was started under lite.
C30_OcrServedUnderLite ==
    \A sid \in StreamIds :
        (/\ prov[sid].name = "Paddle"
         /\ prov[sid].pc = "ocr"
         /\ Has(sid, LogFrame("EXEC", <<"[SYSTEM] switching">>))) =>
            \A p \in PortHolder : procs[p].tier = "lite"

(***************************************************************************)
(* Properties of the frame streams                                         *)
(***************************************************************************)
Chained == req.strategy = "B"
OutFrames == Frames("out")
Terminal(frame) == frame.type \in {"final", "error"}
TerminalAt(frames) == {k \in 1..Len(frames) : Terminal(frames[k])}
Last(seq) == seq[Len(seq)]

\* C1: the stream handed to the caller carries log frames, then exactly one
\* terminal frame (final or error); nothing is enqueued after the terminal frame,
\* and a closed stream has its terminal frame. In particular a Chained stream never
\* carries two final frames or a frame after an error frame.
C1_OneTerminalFrameLast ==
    /\ \A k \in 1..Len(OutFrames) : OutFrames[k].type \in {"log", "final", "error"}
    /\ Cardinality(TerminalAt(OutFrames)) <= 1
    /\ TerminalAt(OutFrames) \subseteq {Len(OutFrames)}
    /\ streams["out"].closed => TerminalAt(OutFrames) # {}

\* the OCR stage has ended with an error frame
OcrFailed ==
    /\ streams["ocr"].closed
    /\ Last(Frames("ocr")).type = "error"

\* C2: in Chained mode, once the OCR stage has ended with an error frame the second
\* stage's streamExtraction is never called, and the output carries no frame of a
\* second stage.
C2_NoSecondStageAfterOcrError ==
    (Chained /\ OcrFailed) =>
        /\ prov["llm"].name = "none"
        /\ \A k \in 1..Len(streams["out"].q) : streams["out"].q[k].src # "llm"

\* C3: when the stream handed to the caller is closed, saveEvent has been called
\* exactly once, with the event of the final frame, if the stream ends with a final
\* frame, and not at all if it ends with an error frame.
C3_SavedOnceWithFinalEvent ==
    streams["out"].closed =>
        IF OutFrames # <<>> /\ Last(OutFrames).type = "final"
        THEN saved = <<[kind |-> Last(OutFrames).tag, text |-> Last(OutFrames).text]>>
        ELSE saved = <<>>

\* C4: a backend network error or non-2xx answer never rejects streamExtraction
\* or orchestrateExtraction; it ends up as an error frame on a stream.
C4_FailuresNeverRejected ==
    /\ orch.pc # "rejected"
    /\ \A sid \in StreamIds : prov[sid].pc # "rejected"

\* C14: a request with strategy C is served by the Paddle provider only, whatever
\* model and provider_url it carries: no provider of a cloud or LLM backend runs.
C14_StrategyCIsPaddleOnly ==
    req.strategy = "C" => \A sid \in StreamIds : prov[sid].name \in {"none", "Paddle"}

FromOcr(chunk) == chunk.src = "ocr"
FromLlm(chunk) == chunk.src = "llm"

\* C5: in Chained mode the output carries the chunks of the OCR stage unchanged and
\* in order, no chunk of the LLM stage precedes a chunk of the OCR stage, and the
\* first chunk of the LLM stage comes after every chunk of the OCR stage.
C5_OcrRelayedBeforeLlm ==
    Chained =>
        LET out == streams["out"].q
            ocr == SelectSeq(out, FromOcr)
        IN  /\ Len(ocr) <= Len(streams["ocr"].q)
            /\ ocr = SubSeq(streams["ocr"].q, 1, Len(ocr))
            /\ \A j, k \in 1..Len(out) : (j < k /\ FromLlm(out[j])) => ~FromOcr(out[k])
            /\ (streams["llm"].q # <<>> \/ prov["llm"].name # "none") =>
                   /\ streams["ocr"].closed
                   /\ ocr = streams["ocr"].q

\* both stages have run and the whole of both has been relayed
C5_Witness ==
    /\ Chained
    /\ streams["out"].closed
    /\ Len(SelectSeq(streams["out"].q, FromOcr)) > 1
    /\ Len(SelectSeq(streams["out"].q, FromLlm)) > 1
    /\ SelectSeq(streams["out"].q, FromLlm) = streams["llm"].q

\* the streams that providers made: the stream of a stage in Chained mode, the
\* stream handed to the caller in Direct mode
ProviderStreams == {sid \in StreamIds : prov[sid].name # "none"}
Announces(frame) == frame = LogFrame("EXEC", <<"[INIT]">>)
IsSynth(frame) == frame.type = "log" /\ frame.tag = "SYNTH"

\* C18: the first frame of every provider stream is the log frame announcing the
\* provider, so it precedes every SYNTH frame and the terminal frame.
C18_AnnouncedFirst ==
    \A sid \in ProviderStreams :
        LET f == Frames(sid)
        IN  /\ f # <<>> => Announces(f[1])
            /\ \A k \in 1..Len(f) :
                   (IsSynth(f[k]) \/ Terminal(f[k])) => \E j \in 1..(k - 1) : Announces(f[j])

C18_Witness ==
    \E sid \in ProviderStreams :
        LET f == Frames(sid)
        IN  /\ prov[sid].name = "Gemini"
            /\ streams[sid].closed
            /\ Announces(f[1])
            /\ \E k \in 2..Len(f) : IsSynth(f[k])
            /\ Terminal(Last(f))

\* the streams of the streaming providers
LlmStreams == {sid \in ProviderStreams : prov[sid].name \in {"Gemini", "OpenAI"}}
SynthTexts(sid) ==
    LET synth == SelectSeq(Frames(sid), IsSynth)
    IN  [k \in 1..Len(synth) |-> synth[k].text]

\* what the backend has sent so far, and the tokens of its complete lines
Arrived(sid) == SubSeq(prov[sid].whole, 1, Len(prov[sid].whole) - Len(prov[sid].body))
ArrivedTokens(sid) ==
    Tokens(prov[sid].name, isOllama(req.config), Complete(Split(Arrived(sid))))

\* the stream has been through its final synthesis
Completed(sid) ==
    \E k \in 1..Len(Frames(sid)) : Frames(sid)[k] = LogFrame("EXEC", <<"[COMPLETE]">>)

\* C27: the SYNTH frames of a streaming provider are the non-empty tokens of the
\* backend's lines in arrival order, one frame per token and none for an empty
\* token; the accumulated text is their concatenation, and it is the text that the
\* final synthesis parses.
C27_TokensInArrivalOrder ==
    \A sid \in LlmStreams :
        /\ \A k \in 1..Len(SynthTexts(sid)) : SynthTexts(sid)[k] # <<>>
        /\ SynthTexts(sid) = ArrivedTokens(sid)
        /\ prov[sid].acc = Flatten(SynthTexts(sid))
        /\ (Completed(sid) /\ Last(Frames(sid)).type = "final") =>
               Last(Frames(sid)).text = Recovered(Flatten(SynthTexts(sid)))

\* two tokens arrived in two reads and the stream ended with the final frame
C27_Witness ==
    \E sid \in LlmStreams :
        /\ Len(SynthTexts(sid)) = 2
        /\ prov[sid].acc = <<"{", "k", "}">>
        /\ Last(Frames(sid)) = FinalFrame([kind |-> "json", text |-> <<"{", "k", "}">>])

\* what the provider enqueues after its first frames when the whole body arrives
\* in one read: the token frames, and the text that the final synthesis parses
WholeTokens(sid) ==
    Tokens(prov[sid].name, isOllama(req.config), Complete(Split(prov[sid].whole)))

\* C28: the token frames and the terminal frame of a streaming provider are those
\* of the body read in one chunk, however the body was split into reads.
C28_ChunkingIndependent ==
    \A sid \in LlmStreams :
        Completed(sid) =>
            /\ SynthTexts(sid) = WholeTokens(sid)
            /\ LET text == Recovered(Flatten(WholeTokens(sid)))
               IN  Last(Frames(sid)) \in
                      IF IsJson(text)
                      THEN {FinalFrame([kind |-> "json", text |-> text]),
                            ErrorFrame(<<"insert failed">>)}
                      ELSE {ErrorFrame(SyntaxErrorMessage(text))}

\* a body of two lines was read to its end, in one read or cut anywhere, and its
\* two tokens came through
C28_Witness ==
    \E sid \in LlmStreams :
        /\ Completed(sid)
        /\ prov[sid].whole = DataLine(<<"{", "k">>) \o DataLine(<<"}">>)
        /\ SynthTexts(sid) = <<<<"{", "k">>, <<"}">>>>
        /\ Last(Frames(sid)).type = "final"

\* C31: in Chained mode the second stage is run by the Gemini or the OpenAI
\* provider, never by the Paddle provider, whatever the provider config.
C31_SecondStageIsTextProvider ==
    (Chained /\ prov["llm"].name # "none") => prov["llm"].name \in {"Gemini", "OpenAI"}

\* the fields of the event of a final frame: PaddleProvider builds its event as a
\* literal; GeminiProvider and OpenAIProvider send what JSON.parse gave, so the
\* event has the keys of the model's answer (an array has none)
EventFields(frame) ==
    IF frame.tag = "ocr"
    THEN {"title", "extracted_text", "source", "generation_time_ms"}
    ELSE IF frame.text = <<"{", "k", "}">> THEN {"k"} ELSE {}

\* C21: the event of every final frame of a provider stream has a
\* generation_time_ms field.
C21_FinalHasGenerationTime ==
    \A sid \in ProviderStreams :
        \A k \in 1..Len(Frames(sid)) :
            Frames(sid)[k].type = "final" => "generation_time_ms" \in EventFields(Frames(sid)[k])

\* the keys of the JSON object that a provider or the orchestrator writes for a
\* frame: the object literals handed to JSON.stringify
WrittenKeys(frame) ==
    CASE frame.type = "log" -> {"type", "tag", "message"}
      [] frame.type = "error" -> {"type", "message"}
      [] frame.type = "final" -> {"type", "event"}
      [] OTHER -> {}

\* the three shapes of the wire format
WireShapes ==
    {{"type", "tag", "message", "timestamp"}, {"type", "message"}, {"type", "event"}}

\* C22: every frame written to the outbound stream has one of the three wire
\* shapes; in particular every log frame carries a timestamp.
C22_FramesHaveWireShape ==
    \A k \in 1..Len(OutFrames) : WrittenKeys(OutFrames[k]) \in WireShapes

\* the OCR stage has ended with a final frame (its text is in prov["ocr"].acc)
OcrFinal ==
    /\ streams["ocr"].closed
    /\ Last(streams["ocr"].q).bytes[1] = "final"

\* C6: in Chained mode the request handed to the second stage is the original
\* request with ocr_text replaced by the text the OCR stage put into its final
\* frame and with base64_image absent; the other fields are those of the original.
C6_DerivedRequest ==
    (Chained /\ prov["llm"].name # "none" /\ OcrFinal) =>
        /\ prov["llm"].request.ocr_text = prov["ocr"].acc
        /\ prov["llm"].request.base64_image = Undefined
        /\ prov["llm"].request.image_context = req.request.image_context

\* the second stage was started on a text with a newline, a quote and a backslash,
\* for a request that came with another text, an image and a context
C6_Witness ==
    /\ Chained
    /\ prov["llm"].name # "none"
    /\ OcrFinal
    /\ prov["ocr"].acc = <<"a", "NL", "Q", "BS", "b">>
    /\ prov["llm"].request.ocr_text = <<"a", "NL", "Q", "BS", "b">>
    /\ req.request = [ocr_text |-> <<"t">>, image_context |-> "ctx", base64_image |-> "img"]

(***************************************************************************)
(* Specification of the health checks                                      *)
(***************************************************************************)
\* the server is up; clients post provider configurations to /api/health
InitHealth ==
    /\ Running

NextHealth ==
    \E config \in Configs, probe \in ProbeOutcomes : CheckHealth(config, probe)

SpecHealth == InitHealth /\ [][NextHealth]_vars

\* the three failures of a probe: refused, timed out, answered with a non-2xx status
FailedProbe(probe) == Rejects(probe) \/ ~ResOk(probe)

\* C12: checkHealth of every provider returns false, and does not throw, when the
\* connection is refused, when the probe times out and when the backend answers
\* with a non-2xx status.
C12_CheckHealthFalseOnFailure ==
    \A k \in 1..Len(probes) :
        /\ ~probes[k].result.threw
        /\ FailedProbe(probes[k].probe) => ~probes[k].result.value

\* C13: the provider is selected with a fixed priority: the local-OCR model
\* identifier selects Paddle whatever the base URL; otherwise the cloud-vision
\* base URL selects Gemini; otherwise OpenAI/Ollama; every config gets exactly one
\* of the three.
C13_GetProviderPriority ==
    \A k \in 1..Len(probes) :
        LET config == probes[k].config
            name == probes[k].name
        IN  /\ name \in {"Paddle", "Gemini", "OpenAI"}
            /\ config.model = PaddleModel => name = "Paddle"
            /\ (config.model # PaddleModel /\ config.baseUrl = GeminiUrl) => name = "Gemini"
            /\ (config.model # PaddleModel /\ config.baseUrl # GeminiUrl) => name = "OpenAI"

\* the provider was selected for the local-OCR model on the cloud-vision URL, and
\* for another model on that URL
C13_Witness ==
    /\ Len(probes) = 2
    /\ probes[1].config = [baseUrl |-> GeminiUrl, model |-> PaddleModel]
    /\ probes[1].name = "Paddle"
    /\ probes[2].config = [baseUrl |-> GeminiUrl, model |-> DefaultModel]
    /\ probes[2].name = "Gemini"

\* a refused probe of one provider and a 500 answer to another have been handled
C12_Witness ==
    /\ Len(probes) = 2
    /\ probes[1].probe.kind = "refused"
    /\ probes[2].probe.kind = "response"
    /\ probes[2].probe.status = 500
    /\ probes[1].name # probes[2].name
    /\ probes[1].result = Returns(FALSE)
    /\ probes[2].result = Returns(FALSE)

(***************************************************************************)
(* Specification of one start() followed through its whole poll loop       *)
(***************************************************************************)
\* start("eco") of the server start-up; the bridge is slow to come up (it binds
\* the port during the last MaxLate iterations of the loop), loads, becomes
\* ready, crashes, or is killed by the fuser command that stop() left behind
NextPoll ==
    \/ \E c \in CallIds : Spawn(c)
    \/ \E c \in CallIds : PollLoop(c)
    \/ /\ \E c \in CallIds : calls[c].pc = "poll" /\ calls[c].i + MaxLate >= PollLimit
       /\ \E p \in Pids : ProcBind(p)
    \/ \E p \in Pids : ProcReady(p)
    \/ \E p \in Pids : ProcCrash(p)
    \/ FuserRun

\* the continuations of start() run when their awaits settle: the spawn after
\* stop(), each probe after its 1 s timeout or answer, each iteration after its sleep
SpecPoll ==
    /\ Init
    /\ [][NextPoll]_vars
    /\ WF_vars(\E c \in CallIds : Spawn(c))
    /\ WF_vars(\E c \in CallIds : PollLoop(c))

\* C15: every start() that gets to spawn returns: its loop makes at most 300 probes
\* and ends at the first probe that reports ok or after the 300th, also when the
\* process has exited or was killed.
C15_StartTerminates ==
    /\ [](\A c \in CallIds : calls[c].i < PollLimit)
    /\ \A c \in CallIds : (calls[c].pc \in {"stopped", "poll"}) ~> (calls[c].pc = "done")

\* start() has given up after the last probe, the process it spawned being dead
C15_Witness ==
    /\ calls[1].pc = "done"
    /\ procs[1].st = "exited"
    /\ fuser = 0
    /\ bridgeLogs # <<>>
    /\ bridgeLogs[Len(bridgeLogs)].msg = <<"startup timed out">>

\* the entries that a step appended to the log
Appended == SubSeq(sinceDrain', Len(sinceDrain) + 1, Len(sinceDrain'))
IsTimeout(entry) == entry.msg = <<"startup timed out">>

\* C25: a start() whose 300 probes all failed to report ok returns after the
\* 300th (it does not throw) and appends exactly one startup-timeout entry,
\* classified as error, as its last entry; a start() that returns earlier returns
\* on a probe that reported ok and appends no timeout entry.
C25_TimeoutLoggedOnce ==
    [][\A c \in CallIds :
         /\ (calls[c].pc = "poll" /\ calls[c].i = PollLimit - 1 /\ calls'[c] # calls[c]) =>
               calls'[c].pc = "done"
         /\ (calls[c].pc = "poll" /\ calls'[c].pc = "done") =>
               \/ /\ calls[c].i = PollLimit - 1
                  /\ Len(SelectSeq(Appended, IsTimeout)) = 1
                  /\ IsTimeout(Last(Appended)) /\ Last(Appended).err
               \/ /\ SelectSeq(Appended, IsTimeout) = <<>>
                  /\ Last(Appended).msg = <<"health check passed">>
         /\ (calls[c].pc = "poll" /\ calls'[c].pc = "poll") =>
               SelectSeq(Appended, IsTimeout) = <<>>]_vars

\* start() gave up while the bridge it spawned was still loading
C25_Witness ==
    /\ calls[1].pc = "done"
    /\ procs[1].st = "loading"
    /\ Len(SelectSeq(sinceDrain, IsTimeout)) = 1
    /\ IsTimeout(Last(sinceDrain)) /\ Last(sinceDrain).err

(***************************************************************************)
(* Specification of install                                                *)
(***************************************************************************)
\* the server is up and the bridge runs; a client posts to /api/paddle/install
NextInstall ==
    \/ \E tier \in Tiers, hasVenv \in BOOLEAN : Install(tier, hasVenv)
    \/ \E code \in {0, 1} : CommandClose(code)
    \/ \E c \in CallIds : GuardProbe(c)
    \/ \E c \in CallIds : Spawn(c)
    \/ \E c \in CallIds : Poll(c)
    \/ \E p \in Pids : ProcBind(p)
    \/ \E p \in Pids : ProcReady(p)
    \/ \E p \in Pids : ProcExit(p)
    \/ FuserRun

SpecInstall == Running /\ [][NextInstall]_vars

\* C16: a failing step of install (a command that exits non-zero) does not make
\* install raise: its promise never rejects.
C16_InstallNeverRejects == inst.pc # "rejected"

(***************************************************************************)
(* Specification of a restart of the server                                *)
(***************************************************************************)
\* the server starts again: model_config.json holds whatever setActiveTier or
\* install persisted before (or does not exist), and start("eco") is under way
InitRestart ==
    /\ Boot
    /\ configTier \in TierArgs

NextRestart ==
    \/ \E c \in CallIds : Spawn(c)
    \/ \E c \in CallIds : Poll(c)
    \/ \E p \in Pids : ProcBind(p)
    \/ \E p \in Pids : ProcReady(p)
    \/ \E p \in Pids : ProcCrash(p)
    \/ FuserRun

SpecRestart == InitRestart /\ [][NextRestart]_vars

\* C17: after a restart the bridge runs under the tier that was last persisted.
C17_RestartUsesPersistedTier ==
    \A p \in Pids : Alive(p) => procs[p].tier = activeTier

(***************************************************************************)
(* Specification of the final synthesis of two LLM extractions             *)
(***************************************************************************)
MaxProse == 1
ProseChars == {"p", "{", "}", "[", "]"}
Prose == UNION {[1..n -> ProseChars] : n \in 0..MaxProse}
Objects == {<<"{", "k", "}">>}

\* what a model may have answered: prose, possibly a JSON object, then prose
Texts == {a \o o \o b : a \in Prose, o \in Objects \cup {<<>>}, b \in Prose}

Synthesizers == {"out", "llm"}

\* a provider run that has read its whole response body, the answer arriving as
\* one token
ReadAll(name, text) ==
    [NoRun EXCEPT !.name = name, !.pc = "read", !.acc = text]

ReadAllStream(sid, name, text) ==
    [NoStream EXCEPT !.q = Encoded(sid, InitLogs(name) \o SynthLogs(IF text = <<>> THEN <<>> ELSE <<text>>))]

\* two extractions by the Gemini provider are about to end
InitJson ==
    /\ bridgeProcess = 1
    /\ configTier = "lite"
    /\ procs = [p \in Pids |-> IF p = 1 THEN [st |-> "ready", tier |-> "lite", sig |-> FALSE]
                                       ELSE NoProc]
    /\ calls = [c \in CallIds |-> [NoCall EXCEPT !.pc = "done"]]
    /\ fuser = 0
    /\ bridgeLogs = <<>>
    /\ sinceDrain = <<>>
    /\ adds = 0
    /\ reads = <<>>
    /\ req = [strategy |-> "A", config |-> [baseUrl |-> GeminiUrl, model |-> DefaultModel],
              request |-> NoRequest]
    /\ orch = [pc |-> "returned", ocrData |-> <<>>]
    /\ \E t \in [Synthesizers -> Texts] :
          /\ prov = [sid \in StreamIds |-> IF sid \in Synthesizers
                                           THEN ReadAll("Gemini", t[sid]) ELSE NoRun]
          /\ streams = [sid \in StreamIds |-> IF sid \in Synthesizers
                                              THEN ReadAllStream(sid, "Gemini", t[sid]) ELSE NoStream]
    /\ saved = <<>>
    /\ probes = <<>>
    /\ inst = NoInstall

NextJson == \E sid \in Synthesizers : ProviderDone(sid)

SpecJson == InitJson /\ [][NextJson]_vars

\* the JSON objects that the accumulated text holds between its prose
Embedded(text) ==
    {o \in Objects : \E i \in 1..(Len(text) - Len(o) + 1) : SubSeq(text, i, i + Len(o) - 1) = o}

Synthesized(sid) == prov[sid].pc = "closed"

\* C19: when the accumulated text is prose, a JSON object, prose, the stream ends
\* with a final frame whose event is exactly the embedded object (unless saving
\* the event failed), whatever characters the prose holds.
C19_RecoversEmbeddedObject ==
    \A sid \in Synthesizers :
        (Synthesized(sid) /\ Embedded(prov[sid].acc) # {}) =>
            LET f == Last(Frames(sid))
            IN  \/ f.type = "final" /\ f.text \in Embedded(prov[sid].acc)
                \/ f = ErrorFrame(<<"insert failed">>)

Unparseable(sid) == ~IsJson(Recovered(prov[sid].acc))
Errors(sid) == SelectSeq(Frames(sid), LAMBDA f : f.type = "error")

\* C20: when no JSON can be recovered the stream ends with exactly one error frame
\* and no final frame, and the error frame carries the same message whatever the
\* unparseable content was.
C20_FixedParseError ==
    /\ \A sid \in Synthesizers :
          (Synthesized(sid) /\ Unparseable(sid)) =>
              /\ Len(Errors(sid)) = 1
              /\ Last(Frames(sid)).type = "error"
              /\ \A k \in 1..Len(Frames(sid)) : Frames(sid)[k].type # "final"
    /\ \A s, t \in Synthesizers :
          (Synthesized(s) /\ Unparseable(s) /\ Synthesized(t) /\ Unparseable(t)) =>
              Errors(s) = Errors(t)

(***************************************************************************)
(* Specification of one extraction whose awaits all settle                 *)
(***************************************************************************)
\* the bridge stays up; every continuation runs once its await settles, and the
\* backend's response ends or fails
NextClose ==
    \/ OrchestrateExtraction
    \/ RelayOcr
    \/ StartLlm
    \/ RelayLlm
    \/ RelayDone
    \/ \E sid \in StreamIds : ProviderFetch(sid)
    \/ \E sid \in StreamIds : ProviderRead(sid)
    \/ \E sid \in StreamIds : ProviderReadFails(sid)
    \/ \E sid \in StreamIds : ProviderDone(sid)
    \/ \E sid \in StreamIds : PaddleHealth(sid)
    \/ \E sid \in StreamIds : PaddleOcr(sid)

SpecClose == InitOrch /\ [][NextClose]_vars /\ WF_vars(NextClose)

\* orchestrateExtraction has returned a stream to the caller
OutExists == orch.pc \in {"returned", "relay_ocr", "await_llm", "relay_llm", "done"}

\* C26: the stream handed to the caller is eventually closed, with a terminal frame
\* as its last frame, in Direct and in Chained mode, whether the stages end with a
\* final frame, a read error, a failed recovery or a throwing streamExtraction.
C26_OutboundEventuallyClosed ==
    /\ [](streams["out"].closed => (OutFrames # <<>> /\ Terminal(Last(OutFrames))))
    /\ OutExists ~> streams["out"].closed

\* a Chained stream closed by the orchestrator's catch block: the second stage's
\* streamExtraction threw
C26_Witness ==
    /\ Chained
    /\ prov["llm"].pc = "rejected"
    /\ streams["out"].closed
    /\ Last(OutFrames).type = "error"

(***************************************************************************)
(* Specification of one Direct extraction                                  *)
(***************************************************************************)
\* body.strategy || "A"
StrategyOf(given) == IF given = Undefined THEN "A" ELSE given

\* what a client may post as strategy, B apart: A, C, nothing, an unknown string
DirectInputs == {"A", "C", Undefined, "Z"}

InitDirect ==
    /\ bridgeProcess = 1
    /\ configTier = "lite"
    /\ procs = [p \in Pids |-> IF p = 1 THEN [st |-> "ready", tier |-> "lite", sig |-> FALSE]
                                       ELSE NoProc]
    /\ calls = [c \in CallIds |-> [NoCall EXCEPT !.pc = "done"]]
    /\ fuser = 0
    /\ bridgeLogs = <<>>
    /\ sinceDrain = <<>>
    /\ adds = 0
    /\ reads = <<>>
    /\ OrchIdle
    /\ req \in [strategy : {StrategyOf(g) : g \in DirectInputs}, config : Configs, request : Requests]

NextDirect ==
    \/ OrchestrateExtraction
    \/ \E sid \in StreamIds : ProviderFetch(sid)
    \/ \E sid \in StreamIds : ProviderRead(sid)
    \/ \E sid \in StreamIds : ProviderReadFails(sid)
    \/ \E sid \in StreamIds : ProviderDone(sid)
    \/ \E sid \in StreamIds : PaddleHealth(sid)
    \/ \E sid \in StreamIds : PaddleOcr(sid)
    \/ \E p \in Pids : ProcCrash(p)

SpecDirect == InitDirect /\ [][NextDirect]_vars

\* C32: for every strategy other than B the stream handed to the caller is the
\* stream of the provider that getProvider selects: every chunk on it was enqueued
\* by that provider, no stage stream exists beside it, and nothing is relayed.
C32_DirectIsProviderStream ==
    (~Chained /\ orch.pc # "idle") =>
        /\ prov["out"].name = getProvider(req.config)
        /\ \A k \in 1..Len(streams["out"].q) : streams["out"].q[k].src = "out"
        /\ streams["ocr"] = NoStream /\ streams["llm"] = NoStream
        /\ prov["ocr"] = NoRun /\ prov["llm"] = NoRun
        /\ orch.ocrData = <<>>

\* an unknown strategy: the OpenAI provider's stream went to the caller as it is
C32_Witness ==
    /\ req.strategy = "Z"
    /\ prov["out"].name = "OpenAI"
    /\ streams["out"].closed
    /\ Last(OutFrames).type = "final"

\* the entry is tagged as an error only when the line came from stderr and its
\* lowercased text holds none of the curated substrings; a stdout line is not tagged
TaggedByOrigin(e) ==
    /\ e.err => (e.stderr /\ ~IncludesBenign(toLowerCase(e.msg)))
    /\ ~e.stderr => ~e.err

C34_ExitedHandleNotTracked ==
    /\ bridgeProcess # 0 => procs[bridgeProcess] # Exited
    /\ (bridgeProcess # 0 /\ procs[bridgeProcess] = Exited) => ~running

(***************************************************************************)
(* Specification of a Direct extraction whose caller may go away           *)
(***************************************************************************)
\* the caller abandons the connection: the server cancels the stream it was
\* given. No stream of the providers or of the orchestrator has a cancel()
\* callback, so nothing else happens at that moment.
Cancel ==
    /\ orch.pc = "returned"
    /\ ~streams["out"].closed
    /\ ~streams["out"].cancelled
    /\ streams' = [streams EXCEPT !["out"].cancelled = TRUE]
    /\ UNCHANGED <<adminVars, req, orch, prov, saved, supVars, logVars>>

\* the configurations served by a provider that reads a streamed response
LlmConfigs == {c \in Configs : getProvider(c) # "Paddle"}

\* orchestrateExtraction has just returned the provider's stream in Direct mode:
\* the fetch succeeded, the stream's first frames are enqueued, the read loop waits
\* for the body, which the backend ends or follows with keep-alive lines
InitCancel ==
    /\ bridgeProcess = 1
    /\ configTier = "lite"
    /\ procs = [p \in Pids |-> IF p = 1 THEN [st |-> "ready", tier |-> "lite", sig |-> FALSE]
                                       ELSE NoProc]
    /\ calls = [c \in CallIds |-> [NoCall EXCEPT !.pc = "done"]]
    /\ fuser = 0
    /\ bridgeLogs = <<>>
    /\ sinceDrain = <<>>
    /\ adds = 0
    /\ reads = <<>>
    /\ saved = <<>>
    /\ probes = <<>>
    /\ inst = NoInstall
    /\ req \in [strategy : {"A"}, config : LlmConfigs, request : Requests]
    /\ orch = [pc |-> "returned", ocrData |-> <<>>]
    /\ \E b \in Bodies(getProvider(req.config) = "Gemini" \/ ~isOllama(req.config)), l \in BOOLEAN :
        /\ prov = [sid \in StreamIds |->
                      IF sid = "out"
                      THEN [NewRun(getProvider(req.config), req.request)
                               EXCEPT !.pc = "read", !.body = b, !.whole = b, !.live = l]
                      ELSE NoRun]
        /\ streams = [sid \in StreamIds |->
                      IF sid = "out"
                      THEN [NoStream EXCEPT !.q = Encoded("out", InitLogs(getProvider(req.config)))]
                      ELSE NoStream]

NextCancel ==
    \/ Cancel
    \/ ProviderRead("out")
    \/ ProviderReadKeepAlive("out")
    \/ ProviderReadFails("out")
    \/ ProviderDone("out")

\* every `await reader.read()` settles once the backend has sent bytes or ended
\* the response; the caller need not go away and the connection need not drop
SpecCancel ==
    /\ InitCancel /\ [][NextCancel]_vars
    /\ WF_vars(ProviderRead("out"))
    /\ WF_vars(ProviderReadKeepAlive("out"))
    /\ WF_vars(ProviderDone("out"))

\* the read loop of the stream's start() is still running
Reading(sid) == prov[sid].pc = "read"

\* C35: once the caller has cancelled the outbound stream, the provider
\* eventually leaves its read loop (it reads no more from the backend response),
\* whether the backend ends the response or keeps delivering data.
C35_CancelStopsReading ==
    streams["out"].cancelled ~> ~Reading("out")

\* no start() is between its first and last statement (setActiveTier and the
\* Paddle provider go through start()), and no port clean-up of a stop() is pending
Quiet == /\ \A c \in CallIds : calls[c].pc \in {"free", "done"}
         /\ fuser = 0

\* C36: whenever the tracked bridge process answers /health with ok and no
\* start(), stop() or setActiveTier() is in flight, the tier that process was
\* spawned with is the persisted active tier that getStatus().activeTier reports.
C36_RunningTierIsActiveTier ==
    (running /\ procs[bridgeProcess].st = "ready" /\ Quiet)
        => procs[bridgeProcess].tier = activeTier

(***************************************************************************)
(* Specification of a local-OCR request while the server boots             *)
(***************************************************************************)
\* the server has just started under tier lite: the start() of start-up has
\* spawned the bridge and polls /health, the bridge has bound its port and
\* loads its models. A Direct request for the Paddle model arrives.
InitBoot ==
    /\ bridgeProcess = 1
    /\ configTier = "lite"
    /\ procs = [p \in Pids |-> IF p = 1 THEN [st |-> "loading", tier |-> "lite", sig |-> FALSE]
                                       ELSE NoProc]
    /\ calls = [c \in CallIds |-> IF c = 1 THEN [NoCall EXCEPT !.pc = "poll", !.pid = 1] ELSE NoCall]
    /\ fuser = 0
    /\ bridgeLogs = addLogs(<<>>, <<<<StopMsg, FALSE>>, <<<<"starting", "lite">>, FALSE>>>>)
    /\ sinceDrain = bridgeLogs
    /\ adds = 0
    /\ reads = <<>>
    /\ OrchIdle
    /\ req \in [strategy : {"A", "C"}, config : {c \in Configs : getProvider(c) = "Paddle"},
                request : Requests]

NextBoot ==
    \/ OrchestrateExtraction
    \/ PaddleHealth("out")
    \/ PaddleStarted("out")
    \/ PaddleOcr("out")
    \/ \E c \in CallIds : GuardProbe(c)
    \/ \E c \in CallIds : Spawn(c)
    \/ \E c \in CallIds : Poll(c)
    \/ \E p \in Pids : ProcBind(p)
    \/ \E p \in Pids : ProcReady(p)
    \/ \E p \in Pids : ProcExit(p)
    \/ \E p \in Pids : ProcCrash(p)
    \/ FuserRun

SpecBoot == InitBoot /\ [][NextBoot]_vars

\* C37: the Paddle provider gets to its POST /ocr only after a health probe (its
\* own, or one of the start() it awaited) has reported status ok: not when that
\* start() returned on a timeout or from its guard while the bridge was loading.
C37_OcrOnlyAfterOkProbe ==
    \A sid \in StreamIds :
        (prov[sid].name = "Paddle" /\ prov[sid].pc = "ocr") => prov[sid].probedOk

\* start() c returns in this step because a probe of its poll loop reported ok
PollPassed(c) == calls[c].pc = "poll" /\ calls'[c].pc = "done" /\ calls'[c].ok

\* C38: when start() returns because its poll loop saw a probe report ok, the
\* process that start() spawned is the tracked handle and has not exited: it does
\* not report "health check passed" on behalf of another process.
C38_PassedForOwnProcess ==
    [][\A c \in CallIds :
         PollPassed(c) => (bridgeProcess = calls[c].pid /\ Alive(calls[c].pid))]_vars

\* the bytes are one line that JSON.parse accepts, followed by the newline
OneFrame(bytes) ==
    /\ Len(bytes) >= 1
    /\ bytes[Len(bytes)] = "NL"
    /\ \A j \in 1..(Len(bytes) - 1) : bytes[j] # "NL"
    /\ Parse(SubSeq(bytes, 1, Len(bytes) - 1)).type # "invalid"

\* C39: every chunk on a stream of a provider (and so every chunk the relay
\* passes on) is exactly one complete frame ended by a newline, and once the
\* Chained orchestrator has read the OCR stage's final chunk its ocrData is the
\* whole text the OCR stage extracted.
C39_ChunkIsOneFrame ==
    /\ \A sid \in StreamIds : \A k \in 1..Len(streams[sid].q) : OneFrame(streams[sid].q[k].bytes)
    /\ Chained =>
          \A k \in 1..streams["ocr"].rd :
              streams["ocr"].q[k].bytes[1] = "final" => orch.ocrData = prov["ocr"].acc

\* the orchestrator has read the whole OCR stream, whose final frame carries a
\* text with a newline, a quote and a backslash
C39_Witness ==
    /\ Chained
    /\ OcrFinal
    /\ streams["ocr"].rd = Len(streams["ocr"].q)
    /\ prov["ocr"].acc = <<"a", "NL", "Q", "BS", "b">>
    /\ orch.ocrData = prov["ocr"].acc

\* the tokens of all the lines of the body, the last one included whether or not
\* a newline ends it
AllTokens(sid) ==
    Tokens(prov[sid].name, isOllama(req.config), Split(prov[sid].whole))

\* C40: when a streaming provider has read its backend's response to the end, it
\* has relayed the token of every payload line as a token frame, also that of a
\* last line that no newline ends, and the text it parses for the final frame is
\* made of all of them.
C40_LastTokenNotLost ==
    \A sid \in LlmStreams :
        Completed(sid) =>
            /\ SynthTexts(sid) = AllTokens(sid)
            /\ prov[sid].acc = Flatten(AllTokens(sid))

====
